---- MODULE Spec2Model ----
(***************************************************************************)
(* Issue tracker REST API: the access guard (middleware/auth.js), the auth *)
(* routes (register, login, me) and the issue routes (stats, list, get,    *)
(* create, update, delete) over the User and Issue tables.                 *)
(*                                                                         *)
(* Strings that the code measures, trims, parses or matches are tuples of  *)
(* one-character strings; enum values and display names are plain strings. *)
(* A JavaScript object (req.body, req.query, req.headers) is a function    *)
(* whose DOMAIN is the set of supplied keys, so a key that is not in the   *)
(* DOMAIN reads as undefined.                                              *)
(***************************************************************************)
EXTENDS Integers, Sequences, FiniteSets, Bags, TLC

VARIABLES
    users,        \* rows of table User
    issues,       \* rows of table Issue
    nextUserId,   \* AUTO_INCREMENT of User.id
    nextIssueId,  \* AUTO_INCREMENT of Issue.id
    now,          \* the server clock, in seconds
    inflight,     \* requests suspended at an await between two store calls
    resp,         \* the response sent last, with the request it answers
    state,        \* the Redux state of the client's issues slice
    pending       \* the client's thunks that wait for their response

serverVars == <<users, issues, nextUserId, nextIssueId, now, inflight, resp>>

clientVars == <<state, pending>>

vars == <<users, issues, nextUserId, nextIssueId, now, inflight, resp, state, pending>>

----------------------------------------------------------------------------
(* Bounds of the model *)

MaxUsers == 2
MaxIssues == 2
MaxTicks == 1
MaxInflight == 2

----------------------------------------------------------------------------
(* Characters and strings *)

Digits == {"0", "1", "2", "3", "4", "5", "6", "7", "8", "9"}

WhiteSpace == {" "}

DigitVal(c) ==
    CASE c = "0" -> 0 [] c = "1" -> 1 [] c = "2" -> 2 [] c = "3" -> 3
      [] c = "4" -> 4 [] c = "5" -> 5 [] c = "6" -> 6 [] c = "7" -> 7
      [] c = "8" -> 8 [] c = "9" -> 9

\* the collation utf8mb4_unicode_ci compares letters without regard to case
FoldChar(c) ==
    CASE c = "A" -> "a" [] c = "B" -> "b" [] c = "C" -> "c" [] c = "D" -> "d"
      [] c = "E" -> "e" [] c = "U" -> "u" [] c = "G" -> "g"
      [] OTHER -> c

Fold(s) == [i \in 1..Len(s) |-> FoldChar(s[i])]

CollationEq(s, t) == Fold(s) = Fold(t)

\* String.prototype.trim: drop the leading and the trailing white space
RECURSIVE TrimStart(_)
TrimStart(s) ==
    IF s /= <<>> /\ Head(s) \in WhiteSpace THEN TrimStart(Tail(s)) ELSE s

RECURSIVE TrimEnd(_)
TrimEnd(s) ==
    IF s /= <<>> /\ s[Len(s)] \in WhiteSpace
    THEN TrimEnd(SubSeq(s, 1, Len(s) - 1))
    ELSE s

Trim(s) == TrimEnd(TrimStart(s))

\* the digits at the front of s, read as a decimal number
RECURSIVE DigitPrefix(_, _)
DigitPrefix(s, acc) ==
    IF s /= <<>> /\ Head(s) \in Digits
    THEN DigitPrefix(Tail(s), 10 * acc + DigitVal(Head(s)))
    ELSE acc

NaN == [nan |-> TRUE, n |-> 0]

\* parseInt(string): white space, an optional sign, then as many decimal
\* digits as there are; NaN when there is none.
ParseIntStr(s) ==
    LET t == TrimStart(s)
        neg == t /= <<>> /\ Head(t) = "-"
        u == IF t /= <<>> /\ Head(t) \in {"-", "+"} THEN Tail(t) ELSE t
    IN  IF u = <<>> \/ Head(u) \notin Digits
        THEN NaN
        ELSE [nan |-> FALSE,
              n |-> IF neg THEN 0 - DigitPrefix(u, 0) ELSE DigitPrefix(u, 0)]

\* parseInt(obj[key]): undefined parses to NaN
ParseInt(obj, key) ==
    IF key \in DOMAIN obj THEN ParseIntStr(obj[key]) ELSE NaN

\* a fallback that is 1 whatever default is given
OrDefaultOne(p, dflt) == IF p.nan \/ p.n = 0 THEN 1 ELSE p.n

\* parseInt(x) || dflt: NaN and 0 are falsy
OrDefault(p, dflt) == IF p.nan \/ p.n = 0 THEN dflt ELSE p.n

\* the SQL NULL of a nullable column
Null == "<null>"

Select(row, keys) == [k \in keys |-> row[k]]

Omit(row, key) == [k \in DOMAIN row \ {key} |-> row[k]]

\* a JavaScript value is falsy when it is undefined or the empty string
\* (for a field held as a tuple of characters, and for one held as a word)
FalsyChars(obj, key) == key \notin DOMAIN obj \/ obj[key] = <<>>

FalsyWord(obj, key) == key \notin DOMAIN obj \/ obj[key] = ""

----------------------------------------------------------------------------
(* Bearer tokens: jwt.sign and jwt.verify *)

TokenTTL == 7 * 24 * 3600

JwtSign(payload, t) ==
    [kind |-> "jwt", userId |-> payload.userId, email |-> payload.email,
     iat |-> t, exp |-> t + TokenTTL, key |-> "JWT_SECRET"]

\* jwt.verify without the check of the signature
JwtVerifiesAnyKey(word, t) == word.kind = "jwt" /\ t < word.exp

\* jwt.verify throws unless the word is a token signed with the secret
\* whose expiry lies in the future
JwtVerifies(word, t) ==
    /\ word.kind = "jwt"
    /\ word.key = "JWT_SECRET"
    /\ t < word.exp

\* authHeader.split(' ')[1]: the header is held as its list of words
SecondWord(headers) ==
    IF "authorization" \in DOMAIN headers /\ Len(headers.authorization) >= 2
    THEN headers.authorization[2]
    ELSE [kind |-> "undefined"]

NoToken(word) == word.kind = "undefined" \/ (word.kind = "text" /\ word.text = "")

MissingTokenStatus == 401

InvalidTokenStatus == 403

\* authenticateToken: the outcome of the guard for a request's headers
authenticateToken(headers, t) ==
    LET token == SecondWord(headers) IN
    IF NoToken(token)
    THEN [next |-> FALSE, status |-> MissingTokenStatus,
          body |-> [success |-> FALSE,
                    message |-> "Access denied. No token provided."]]
    ELSE IF JwtVerifies(token, t)
    THEN [next |-> TRUE,
          user |-> [userId |-> token.userId, email |-> token.email]]
    ELSE [next |-> FALSE, status |-> InvalidTokenStatus,
          body |-> [success |-> FALSE, message |-> "Invalid or expired token."]]

----------------------------------------------------------------------------
(* Password hashing: bcrypt.hash and bcrypt.compare *)

saltRounds == 10

BcryptHash(password, rounds) ==
    [alg |-> "bcrypt", rounds |-> rounds, of |-> password]

BcryptCompare(password, hash) == hash.of = password

----------------------------------------------------------------------------
(* The store: prisma.user and prisma.issue on the MySQL tables *)

\* prisma.user.findUnique({ where: { email } }): the rows the unique index
\* User_email_key matches, compared under the column's collation
UserFindByEmail(email) == {u \in users : CollationEq(u.email, email)}

UserFindById(id) == {u \in users : u.id = id}

\* the row prisma.user.create inserts
NewUserRow(email, hashedPassword, name) ==
    [id |-> nextUserId, email |-> email, password |-> hashedPassword,
     name |-> name, createdAt |-> now, updatedAt |-> now]

\* UNIQUE INDEX User_email_key rejects a second row with an equal email
UniqueEmailViolated(email) == UserFindByEmail(email) /= {}

----------------------------------------------------------------------------
(* Requests and responses *)

\* a response, with the request it answers and the instant it is sent
Reply(op, req, status, body) ==
    [op |-> op, req |-> req, status |-> status, body |-> body, at |-> now]

NoResponse == [op |-> "none", req |-> <<>>, status |-> 0, body |-> <<>>, at |-> 0]

\* The suspended requests are a bag: two clients may send the same request.
\* resp holds the response to the request handled last, and none while
\* that request waits for the store.
Suspend(r) ==
    /\ inflight' = inflight (+) SetToBag({r})
    /\ resp' = NoResponse

Resume(r) == inflight' = inflight (-) SetToBag({r})

----------------------------------------------------------------------------
(* Auth routes: POST /register, POST /login, GET /me *)

NotSpaceAt(s) == \A i \in 1..Len(s) : s[i] \notin WhiteSpace \cup {"@"}

\* emailRegex.test(email) for /^[^\s@]+@[^\s@]+\.[^\s@]+$/
emailRegexTest(email) ==
    \E i \in 1..Len(email) : \E j \in (i + 2)..(Len(email) - 1) :
        /\ i > 1
        /\ email[i] = "@"
        /\ email[j] = "."
        /\ NotSpaceAt(SubSeq(email, 1, i - 1))
        /\ NotSpaceAt(SubSeq(email, i + 1, j - 1))
        /\ NotSpaceAt(SubSeq(email, j + 1, Len(email)))

MinPasswordLength == 6

\* the validation at the head of POST /register: the 400 message, or "" 
RegisterInvalid(body) ==
    IF FalsyChars(body, "email") \/ FalsyChars(body, "password")
    THEN "Email and password are required"
    ELSE IF ~emailRegexTest(body.email)
    THEN "Please provide a valid email address"
    ELSE IF Len(body.password) < MinPasswordLength
    THEN "Password must be at least 6 characters long"
    ELSE ""

\* a lookup that finds nobody
RegisterExistingUserMissed(email) == {}

\* const existingUser = await prisma.user.findUnique({ where: { email } })
RegisterExistingUser(email) == UserFindByEmail(email)

UserPublicFields == {"id", "email", "name", "createdAt"}

\* the select of prisma.user.create in register and of findUnique in me
RegisterSelect(row) == Select(row, UserPublicFields)

\* the user row sent as it is stored
LoginUserViewWhole(row) == row

\* const { password: _, ...userWithoutPassword } = user
LoginUserView(row) == Omit(row, "password")

\* the model starts a register only while the users it and the suspended
\* registers can create fit the bound
RoomForUser(email) ==
    /\ BagCardinality(inflight) < MaxInflight
    /\ Cardinality(users)
         + Cardinality({Fold(r.req.body.email) : r \in BagToSet(inflight)}
                        \cup {Fold(email)}) <= MaxUsers

\* POST /register up to the await of findUnique: 400, 409, or suspended
RegisterFind(body) ==
    LET req == [body |-> body] IN
    /\ IF RegisterInvalid(body) /= ""
       THEN /\ resp' = Reply("register", req, 400,
                    [success |-> FALSE, message |-> RegisterInvalid(body)])
            /\ UNCHANGED inflight
       ELSE IF RegisterExistingUser(body.email) /= {}
       THEN /\ resp' = Reply("register", req, 409,
                    [success |-> FALSE,
                     message |-> "User with this email already exists"])
            /\ UNCHANGED inflight
       ELSE /\ RoomForUser(body.email)
            /\ Suspend([op |-> "register", req |-> req])
    /\ UNCHANGED <<users, issues, nextUserId, nextIssueId, now>>

\* POST /register from bcrypt.hash on: prisma.user.create, whose unique
\* index may throw (caught: 500), then jwt.sign and the 201
RegisterCreate(r) ==
    LET req == r.req
        body == req.body
        hashedPassword == BcryptHash(body.password, saltRounds)
        name == IF FalsyWord(body, "name") THEN Null ELSE body.name
        row == NewUserRow(body.email, hashedPassword, name)
        newUser == RegisterSelect(row)
        token == JwtSign([userId |-> newUser.id, email |-> newUser.email], now)
    IN
    /\ r.op = "register"
    /\ Resume(r)
    /\ IF UniqueEmailViolated(body.email)
       THEN /\ resp' = Reply("register", req, 500,
                    [success |-> FALSE, message |-> "Error registering user",
                     error |-> "Unique constraint failed"])
            /\ UNCHANGED <<users, nextUserId>>
       ELSE /\ users' = users \cup {row}
            /\ nextUserId' = nextUserId + 1
            /\ resp' = Reply("register", req, 201,
                    [success |-> TRUE, message |-> "User registered successfully",
                     data |-> [user |-> newUser, token |-> token]])
    /\ UNCHANGED <<issues, nextIssueId, now>>

\* the 401 of login when no user has the email
LoginUnknownEmail ==
    [status |-> 401,
     body |-> [success |-> FALSE, message |-> "Invalid email or password"]]

\* a refusal that tells the password was the wrong part
LoginWrongPasswordTold ==
    [status |-> 401, body |-> [success |-> FALSE, message |-> "Incorrect password"]]

\* the 401 of login when bcrypt.compare fails
LoginWrongPassword ==
    [status |-> 401,
     body |-> [success |-> FALSE, message |-> "Invalid email or password"]]

\* POST /login
Login(body) ==
    LET req == [body |-> body]
        found == UserFindByEmail(body.email)
    IN
    /\ IF FalsyChars(body, "email") \/ FalsyChars(body, "password")
       THEN resp' = Reply("login", req, 400,
                    [success |-> FALSE,
                     message |-> "Email and password are required"])
       ELSE IF found = {}
       THEN resp' = Reply("login", req, LoginUnknownEmail.status, LoginUnknownEmail.body)
       ELSE LET user == CHOOSE u \in found : TRUE
                token == JwtSign([userId |-> user.id, email |-> user.email], now)
            IN  IF ~BcryptCompare(body.password, user.password)
                THEN resp' = Reply("login", req, LoginWrongPassword.status,
                                   LoginWrongPassword.body)
                ELSE resp' = Reply("login", req, 200,
                            [success |-> TRUE, message |-> "Login successful",
                             data |-> [user |-> LoginUserView(user),
                                       token |-> token]])
    /\ UNCHANGED <<users, issues, nextUserId, nextIssueId, now, inflight>>

\* a request stopped by the guard: the handler never runs
Rejected(op, req, guard) ==
    /\ resp' = Reply(op, req, guard.status, guard.body)
    /\ UNCHANGED <<users, issues, nextUserId, nextIssueId, now, inflight>>

\* GET /me behind authenticateToken
Me(headers) ==
    LET req == [headers |-> headers]
        guard == authenticateToken(headers, now)
    IN
    IF ~guard.next
    THEN Rejected("me", req, guard)
    ELSE LET found == UserFindById(guard.user.userId) IN
         /\ IF found = {}
            THEN resp' = Reply("me", req, 404,
                    [success |-> FALSE, message |-> "User not found"])
            ELSE resp' = Reply("me", req, 200,
                    [success |-> TRUE,
                     data |-> [user |-> RegisterSelect(CHOOSE u \in found : TRUE)]])
         /\ UNCHANGED <<users, issues, nextUserId, nextIssueId, now, inflight>>

\* the clock moves on by one token lifetime: what was signed before expires
Tick ==
    /\ now < MaxTicks * TokenTTL
    /\ now' = now + TokenTTL
    /\ UNCHANGED <<users, issues, nextUserId, nextIssueId, inflight, resp>>

----------------------------------------------------------------------------
(* Issue routes: the store calls *)

validStatuses == {"Open", "InProgress", "Resolved", "Closed"}

validPriorities == {"Low", "Medium", "High", "Critical"}

validSeverities == {"Low", "Medium", "High", "Critical"}

\* include: { user: { select: { id, email, name } } }
IncludeUser(issue) ==
    [k \in DOMAIN issue \cup {"user"} |->
        IF k = "user"
        THEN Select(CHOOSE u \in users : u.id = issue.userId, {"id", "email", "name"})
        ELSE issue[k]]

\* prisma.issue.findUnique({ where: { id } })
IssueFindUnique(id) == {x \in issues : x.id = id}

\* an ownership test that lets every caller through
NotOwnerSkipped(issue, caller) == FALSE

\* the ownership test of get, update and delete
NotOwner(issue, caller) == issue.userId /= caller.userId

\* LIKE %term% under a collation that tells the cases apart
ContainsExactCase(s, term) ==
    \E i \in 1..(Len(s) - Len(term) + 1) : SubSeq(s, i, i + Len(term) - 1) = term

\* LIKE %term% under the collation of the column
Contains(s, term) ==
    \E i \in 1..(Len(s) - Len(term) + 1) :
        CollationEq(SubSeq(s, i, i + Len(term) - 1), term)

----------------------------------------------------------------------------
(* GET /stats *)

\* the groups counted over the issues of every user
StatsGroupByAllUsers(userId) ==
    {[status |-> st, count |-> Cardinality({x \in issues : x.status = st})] :
        st \in {x.status : x \in {y \in issues : y.userId = userId}}}

\* prisma.issue.groupBy({ by: ['status'], where: { userId } }): one group
\* for each status that has rows
StatsGroupBy(userId) ==
    {[status |-> st,
      count |-> Cardinality({x \in issues : x.userId = userId /\ x.status = st})] :
        st \in {x.status : x \in {y \in issues : y.userId = userId}}}

\* the seeded counts, overwritten by the groups
StatsCounts(groups) ==
    [st \in validStatuses |->
        IF \E g \in groups : g.status = st
        THEN (CHOOSE g \in groups : g.status = st).count
        ELSE 0]

StatsTotal(counts) ==
    counts["Open"] + counts["InProgress"] + counts["Resolved"] + counts["Closed"]

Stats(headers) ==
    LET req == [headers |-> headers]
        guard == authenticateToken(headers, now)
    IN
    IF ~guard.next
    THEN Rejected("stats", req, guard)
    ELSE LET counts == StatsCounts(StatsGroupBy(guard.user.userId)) IN
         /\ resp' = Reply("stats", req, 200,
                [success |-> TRUE,
                 data |-> [counts |-> counts, total |-> StatsTotal(counts)]])
         /\ UNCHANGED <<users, issues, nextUserId, nextIssueId, now, inflight>>

----------------------------------------------------------------------------
(* GET /:id *)

InvalidId == [success |-> FALSE, message |-> "Invalid issue ID"]

NotFound == [success |-> FALSE, message |-> "Issue not found"]

Forbidden(verb) ==
    [success |-> FALSE,
     message |-> CASE verb = "view" -> "You do not have permission to view this issue"
                   [] verb = "update" -> "You do not have permission to update this issue"
                   [] verb = "delete" -> "You do not have permission to delete this issue"]

\* the checks with another user's issue reported as missing
IdChecksOwnerAs404(issueId, found, caller) ==
    IF issueId.nan THEN 400
    ELSE IF found = {} \/ (CHOOSE x \in found : TRUE).userId /= caller.userId THEN 404
    ELSE 0

\* the checks get, update and delete make on the id and on the row found:
\* the status of the refusal, or 0 to go on
IdChecks(issueId, found, caller) ==
    IF issueId.nan THEN 400
    ELSE IF found = {} THEN 404
    ELSE IF NotOwner(CHOOSE x \in found : TRUE, caller) THEN 403
    ELSE 0

Refusal(status, verb) ==
    CASE status = 400 -> InvalidId
      [] status = 404 -> NotFound
      [] status = 403 -> Forbidden(verb)

GetById(headers, params) ==
    LET req == [headers |-> headers, params |-> params]
        guard == authenticateToken(headers, now)
        issueId == ParseInt(params, "id")
        found == IF issueId.nan THEN {} ELSE IssueFindUnique(issueId.n)
    IN
    IF ~guard.next
    THEN Rejected("get", req, guard)
    ELSE LET refused == IdChecks(issueId, found, guard.user) IN
         /\ IF refused /= 0
            THEN resp' = Reply("get", req, refused, Refusal(refused, "view"))
            ELSE resp' = Reply("get", req, 200,
                    [success |-> TRUE,
                     data |-> [issue |-> IncludeUser(CHOOSE x \in found : TRUE)]])
         /\ UNCHANGED <<users, issues, nextUserId, nextIssueId, now, inflight>>

----------------------------------------------------------------------------
(* POST / *)

MinTitleLength == 3

MaxTitleLength == 255

MinDescriptionLength == 10

MaxDescriptionLength == 5000

\* `title` VARCHAR(191): a longer value is refused by the database
TitleColumnWidth == 191

\* what the database does with a title: it stores one that fits; one that
\* does not fit is refused under the strict SQL mode and cut to the width
\* of the column otherwise
TitleStored(title) ==
    IF Len(title) <= TitleColumnWidth
    THEN {[ok |-> TRUE, title |-> title]}
    ELSE {[ok |-> FALSE, title |-> title],
          [ok |-> TRUE, title |-> SubSeq(title, 1, TitleColumnWidth)]}

\* the validation with the lengths taken before trimming
CreateInvalidUntrimmed(body) ==
    IF FalsyChars(body, "title") \/ FalsyChars(body, "description")
    THEN "Title and description are required"
    ELSE IF Len(body.title) < MinTitleLength
    THEN "Title must be at least 3 characters long"
    ELSE IF Len(body.title) > MaxTitleLength
    THEN "Title must not exceed 255 characters"
    ELSE IF Len(body.description) < MinDescriptionLength
    THEN "Description must be at least 10 characters long"
    ELSE IF Len(body.description) > MaxDescriptionLength
    THEN "Description must not exceed 5000 characters"
    ELSE IF ~FalsyWord(body, "status") /\ body.status \notin validStatuses
    THEN "Invalid status. Must be one of: Open, InProgress, Resolved, Closed"
    ELSE IF ~FalsyWord(body, "priority") /\ body.priority \notin validPriorities
    THEN "Invalid priority. Must be one of: Low, Medium, High, Critical"
    ELSE IF ~FalsyWord(body, "severity") /\ body.severity \notin validSeverities
    THEN "Invalid severity. Must be one of: Low, Medium, High, Critical"
    ELSE ""

\* the validation of POST /: the 400 message, or ""
CreateInvalid(body) ==
    IF FalsyChars(body, "title") \/ FalsyChars(body, "description")
    THEN "Title and description are required"
    ELSE IF Len(Trim(body.title)) < MinTitleLength
    THEN "Title must be at least 3 characters long"
    ELSE IF Len(Trim(body.title)) > MaxTitleLength
    THEN "Title must not exceed 255 characters"
    ELSE IF Len(Trim(body.description)) < MinDescriptionLength
    THEN "Description must be at least 10 characters long"
    ELSE IF Len(Trim(body.description)) > MaxDescriptionLength
    THEN "Description must not exceed 5000 characters"
    ELSE IF ~FalsyWord(body, "status") /\ body.status \notin validStatuses
    THEN "Invalid status. Must be one of: Open, InProgress, Resolved, Closed"
    ELSE IF ~FalsyWord(body, "priority") /\ body.priority \notin validPriorities
    THEN "Invalid priority. Must be one of: Low, Medium, High, Critical"
    ELSE IF ~FalsyWord(body, "severity") /\ body.severity \notin validSeverities
    THEN "Invalid severity. Must be one of: Low, Medium, High, Critical"
    ELSE ""

\* the data with the owner taken from the body when it names one
CreateDataOwnerFromBody(body, caller) ==
    [title |-> Trim(body.title),
     description |-> Trim(body.description),
     status |-> IF FalsyWord(body, "status") THEN "Open" ELSE body.status,
     priority |-> IF FalsyWord(body, "priority") THEN "Medium" ELSE body.priority,
     severity |-> IF FalsyWord(body, "severity") THEN "Medium" ELSE body.severity,
     userId |-> IF "userId" \in DOMAIN body THEN body.userId ELSE caller.userId]

\* the data of prisma.issue.create
CreateData(body, caller) ==
    [title |-> Trim(body.title),
     description |-> Trim(body.description),
     status |-> IF FalsyWord(body, "status") THEN "Open" ELSE body.status,
     priority |-> IF FalsyWord(body, "priority") THEN "Medium" ELSE body.priority,
     severity |-> IF FalsyWord(body, "severity") THEN "Medium" ELSE body.severity,
     userId |-> caller.userId]

\* the row the database inserts for the data
NewIssueRow(data) ==
    [id |-> nextIssueId, title |-> data.title, description |-> data.description,
     status |-> data.status, priority |-> data.priority, severity |-> data.severity,
     userId |-> data.userId, createdAt |-> now, updatedAt |-> now]

\* the model creates issues while the id counter fits the bound
RoomForIssue == nextIssueId <= MaxIssues

Create(headers, body) ==
    LET req == [headers |-> headers, body |-> body]
        guard == authenticateToken(headers, now)
    IN
    IF ~guard.next
    THEN Rejected("create", req, guard)
    ELSE /\ IF CreateInvalid(body) /= ""
            THEN /\ resp' = Reply("create", req, 400,
                        [success |-> FALSE, message |-> CreateInvalid(body)])
                 /\ UNCHANGED <<issues, nextIssueId>>
            ELSE LET data == CreateData(body, guard.user) IN
                 \E stored \in TitleStored(data.title) :
                    LET row == NewIssueRow([data EXCEPT !.title = stored.title]) IN
                    IF ~stored.ok
                    THEN /\ resp' = Reply("create", req, 500,
                                [success |-> FALSE, message |-> "Error creating issue",
                                 error |-> "The provided value for the column is too long"])
                         /\ UNCHANGED <<issues, nextIssueId>>
                    ELSE /\ RoomForIssue
                         /\ issues' = issues \cup {row}
                         /\ nextIssueId' = nextIssueId + 1
                         /\ resp' = Reply("create", req, 201,
                                [success |-> TRUE,
                                 message |-> "Issue created successfully",
                                 data |-> [issue |-> IncludeUser(row)]])
         /\ UNCHANGED <<users, nextUserId, now, inflight>>

----------------------------------------------------------------------------
(* PUT /:id *)

\* the validation of the texts alone
UpdateInvalidTextOnly(body) ==
    IF "title" \in DOMAIN body /\ Len(Trim(body.title)) < MinTitleLength
    THEN "Title must be at least 3 characters long"
    ELSE IF "title" \in DOMAIN body /\ Len(Trim(body.title)) > MaxTitleLength
    THEN "Title must not exceed 255 characters"
    ELSE IF "description" \in DOMAIN body
            /\ Len(Trim(body.description)) < MinDescriptionLength
    THEN "Description must be at least 10 characters long"
    ELSE IF "description" \in DOMAIN body
            /\ Len(Trim(body.description)) > MaxDescriptionLength
    THEN "Description must not exceed 5000 characters"
    ELSE ""

\* the validation with status, priority and severity looked at first
UpdateInvalidEnumsFirst(body) ==
    IF "status" \in DOMAIN body /\ body.status \notin validStatuses
    THEN "Invalid status. Must be one of: Open, InProgress, Resolved, Closed"
    ELSE IF "priority" \in DOMAIN body /\ body.priority \notin validPriorities
    THEN "Invalid priority. Must be one of: Low, Medium, High, Critical"
    ELSE IF "severity" \in DOMAIN body /\ body.severity \notin validSeverities
    THEN "Invalid severity. Must be one of: Low, Medium, High, Critical"
    ELSE UpdateInvalidTextOnly(body)

\* the validation of the supplied fields, in the order of the code: the 400
\* message of the first that fails, or ""
UpdateInvalid(body) ==
    IF "title" \in DOMAIN body /\ Len(Trim(body.title)) < MinTitleLength
    THEN "Title must be at least 3 characters long"
    ELSE IF "title" \in DOMAIN body /\ Len(Trim(body.title)) > MaxTitleLength
    THEN "Title must not exceed 255 characters"
    ELSE IF "description" \in DOMAIN body
            /\ Len(Trim(body.description)) < MinDescriptionLength
    THEN "Description must be at least 10 characters long"
    ELSE IF "description" \in DOMAIN body
            /\ Len(Trim(body.description)) > MaxDescriptionLength
    THEN "Description must not exceed 5000 characters"
    ELSE IF "status" \in DOMAIN body /\ body.status \notin validStatuses
    THEN "Invalid status. Must be one of: Open, InProgress, Resolved, Closed"
    ELSE IF "priority" \in DOMAIN body /\ body.priority \notin validPriorities
    THEN "Invalid priority. Must be one of: Low, Medium, High, Critical"
    ELSE IF "severity" \in DOMAIN body /\ body.severity \notin validSeverities
    THEN "Invalid severity. Must be one of: Low, Medium, High, Critical"
    ELSE ""

UpdatableFields == {"title", "description", "status", "priority", "severity"}

\* updateData: the supplied fields, title and description trimmed
UpdateData(body) ==
    [k \in DOMAIN body \cap UpdatableFields |->
        IF k \in {"title", "description"} THEN Trim(body[k]) ELSE body[k]]

\* a write that is dropped when the row was written since it was created
UpdatedRowFirstWriterWins(row, data) ==
    IF row.updatedAt > row.createdAt THEN row
    ELSE [k \in DOMAIN row |->
            IF k \in DOMAIN data THEN data[k]
            ELSE IF k = "updatedAt" THEN now
            ELSE row[k]]

\* a write that leaves the status of a resolved or closed issue alone
UpdatedRowTerminal(row, data) ==
    [k \in DOMAIN row |->
        IF k = "status" /\ row.status \in {"Resolved", "Closed"} THEN row[k]
        ELSE IF k \in DOMAIN data THEN data[k]
        ELSE IF k = "updatedAt" THEN now
        ELSE row[k]]

\* a write that puts the defaults of create into the fields left out
UpdatedRowWithDefaults(row, data) ==
    [k \in DOMAIN row |->
        IF k \in DOMAIN data THEN data[k]
        ELSE IF k = "updatedAt" THEN now
        ELSE IF k = "status" THEN "Open"
        ELSE IF k \in {"priority", "severity"} THEN "Medium"
        ELSE row[k]]

\* the row after prisma.issue.update wrote the data
UpdatedRow(row, data) ==
    [k \in DOMAIN row |->
        IF k \in DOMAIN data THEN data[k]
        ELSE IF k = "updatedAt" THEN now
        ELSE row[k]]

\* PUT /:id up to the await of prisma.issue.update
UpdateFind(headers, params, body) ==
    LET req == [headers |-> headers, params |-> params, body |-> body]
        guard == authenticateToken(headers, now)
        issueId == ParseInt(params, "id")
        found == IF issueId.nan THEN {} ELSE IssueFindUnique(issueId.n)
    IN
    IF ~guard.next
    THEN Rejected("update", req, guard)
    ELSE LET refused == IdChecks(issueId, found, guard.user) IN
         /\ IF refused /= 0
            THEN /\ resp' = Reply("update", req, refused, Refusal(refused, "update"))
                 /\ UNCHANGED inflight
            ELSE IF UpdateInvalid(body) /= ""
            THEN /\ resp' = Reply("update", req, 400,
                        [success |-> FALSE, message |-> UpdateInvalid(body)])
                 /\ UNCHANGED inflight
            ELSE /\ BagCardinality(inflight) < MaxInflight
                 /\ Suspend([op |-> "update", req |-> req, id |-> issueId.n,
                             data |-> UpdateData(body)])
         /\ UNCHANGED <<users, issues, nextUserId, nextIssueId, now>>

\* prisma.issue.update and the 200; the call throws when the row is gone
\* or the database refuses the title (caught: 500)
UpdateWrite(r) ==
    LET found == IssueFindUnique(r.id) IN
    /\ r.op = "update"
    /\ Resume(r)
    /\ IF found = {}
       THEN /\ resp' = Reply("update", r.req, 500,
                    [success |-> FALSE, message |-> "Error updating issue",
                     error |-> "Record to update not found"])
            /\ UNCHANGED issues
       ELSE \E stored \in (IF "title" \in DOMAIN r.data
                            THEN TitleStored(r.data.title)
                            ELSE {[ok |-> TRUE]}) :
            IF ~stored.ok
            THEN /\ resp' = Reply("update", r.req, 500,
                        [success |-> FALSE, message |-> "Error updating issue",
                         error |-> "The provided value for the column is too long"])
                 /\ UNCHANGED issues
            ELSE LET row == CHOOSE x \in found : TRUE
                     data == IF "title" \in DOMAIN r.data
                             THEN [r.data EXCEPT !.title = stored.title]
                             ELSE r.data
                     updatedIssue == UpdatedRow(row, data)
                 IN  /\ issues' = (issues \ {row}) \cup {updatedIssue}
                     /\ resp' = Reply("update", r.req, 200,
                            [success |-> TRUE, message |-> "Issue updated successfully",
                             data |-> [issue |-> IncludeUser(updatedIssue)]])
    /\ UNCHANGED <<users, nextUserId, nextIssueId, now>>

----------------------------------------------------------------------------
(* DELETE /:id *)

\* DELETE /:id up to the await of prisma.issue.delete
DeleteFind(headers, params) ==
    LET req == [headers |-> headers, params |-> params]
        guard == authenticateToken(headers, now)
        issueId == ParseInt(params, "id")
        found == IF issueId.nan THEN {} ELSE IssueFindUnique(issueId.n)
    IN
    IF ~guard.next
    THEN Rejected("delete", req, guard)
    ELSE LET refused == IdChecks(issueId, found, guard.user) IN
         /\ IF refused /= 0
            THEN /\ resp' = Reply("delete", req, refused, Refusal(refused, "delete"))
                 /\ UNCHANGED inflight
            ELSE /\ BagCardinality(inflight) < MaxInflight
                 /\ Suspend([op |-> "delete", req |-> req, id |-> issueId.n])
         /\ UNCHANGED <<users, issues, nextUserId, nextIssueId, now>>

\* the rows a delete that takes the owner's other issues with it leaves
DeleteKeepsOthersOnly(rows, found) ==
    {x \in rows : \A y \in found : x.userId /= y.userId}

\* prisma.issue.delete({ where: { id } }): the rows left
DeleteKeeps(rows, found) == rows \ found

\* prisma.issue.delete and the 200; the call throws when the row is gone
DeleteWrite(r) ==
    LET found == IssueFindUnique(r.id) IN
    /\ r.op = "delete"
    /\ Resume(r)
    /\ IF found = {}
       THEN /\ resp' = Reply("delete", r.req, 500,
                    [success |-> FALSE, message |-> "Error deleting issue",
                     error |-> "Record to delete does not exist"])
            /\ UNCHANGED issues
       ELSE /\ issues' = DeleteKeeps(issues, found)
            /\ resp' = Reply("delete", r.req, 200,
                    [success |-> TRUE, message |-> "Issue deleted successfully"])
    /\ UNCHANGED <<users, nextUserId, nextIssueId, now>>

----------------------------------------------------------------------------
(* GET / *)

DefaultPage == 1

DefaultLimit == 10

\* the where clause: the owner, then the filters the query supplies
ListWhere(query, caller) ==
    [k \in {"userId"} \cup {f \in {"search", "status", "priority", "severity"} :
                                IF f = "search" THEN ~FalsyChars(query, f)
                                ELSE ~FalsyWord(query, f)} |->
        IF k = "userId" THEN caller.userId ELSE query[k]]

\* the client library refuses an enum filter that names no member of the
\* column's enum, and a negative skip
WhereRefused(where) ==
    \/ "status" \in DOMAIN where /\ where.status \notin validStatuses
    \/ "priority" \in DOMAIN where /\ where.priority \notin validPriorities
    \/ "severity" \in DOMAIN where /\ where.severity \notin validSeverities

\* a where clause whose filters are alternatives
MatchesAnyFilter(x, where) ==
    /\ x.userId = where.userId
    /\ \/ DOMAIN where = {"userId"}
       \/ "search" \in DOMAIN where /\
            (Contains(x.title, where.search) \/ Contains(x.description, where.search))
       \/ "status" \in DOMAIN where /\ x.status = where.status
       \/ "priority" \in DOMAIN where /\ x.priority = where.priority
       \/ "severity" \in DOMAIN where /\ x.severity = where.severity

\* a where clause that lost the owner
MatchesAnyOwner(x, where) ==
    /\ "search" \in DOMAIN where =>
            Contains(x.title, where.search) \/ Contains(x.description, where.search)
    /\ "status" \in DOMAIN where => x.status = where.status
    /\ "priority" \in DOMAIN where => x.priority = where.priority
    /\ "severity" \in DOMAIN where => x.severity = where.severity

\* a row satisfies the where clause: every key ANDed, OR inside the search
Matches(x, where) ==
    /\ x.userId = where.userId
    /\ "search" \in DOMAIN where =>
            Contains(x.title, where.search) \/ Contains(x.description, where.search)
    /\ "status" \in DOMAIN where => x.status = where.status
    /\ "priority" \in DOMAIN where => x.priority = where.priority
    /\ "severity" \in DOMAIN where => x.severity = where.severity

\* the rows returned oldest first
OrderedByCreatedAtAsc(rows) ==
    {s \in [1..Cardinality(rows) -> rows] :
        /\ \A i, j \in DOMAIN s : i < j => s[i] /= s[j]
        /\ \A i, j \in DOMAIN s : i < j => s[i].createdAt <= s[j].createdAt}

\* the orders in which the database may return the rows for
\* orderBy: { createdAt: 'desc' } (rows of one instant come in any order)
OrderedByCreatedAtDesc(rows) ==
    {s \in [1..Cardinality(rows) -> rows] :
        /\ \A i, j \in DOMAIN s : i < j => s[i] /= s[j]
        /\ \A i, j \in DOMAIN s : i < j => s[i].createdAt >= s[j].createdAt}

Reverse(s) == [i \in 1..Len(s) |-> s[Len(s) + 1 - i]]

Min(a, b) == IF a < b THEN a ELSE b

\* skip and take on the ordered rows; a negative take counts from the end
SkipTake(s, skip, take) ==
    IF take >= 0
    THEN SubSeq(s, skip + 1, Min(Len(s), skip + take))
    ELSE Reverse(SubSeq(Reverse(s), skip + 1, Min(Len(s), skip - take)))

\* Math.ceil(totalCount / limit)
CeilDiv(a, b) ==
    IF b > 0 THEN (a + b - 1) \div b ELSE 0 - (a \div (0 - b))

Pagination(page, limit, totalCount) ==
    LET totalPages == CeilDiv(totalCount, limit) IN
    [currentPage |-> page, totalPages |-> totalPages, totalCount |-> totalCount,
     limit |-> limit, hasNextPage |-> page < totalPages,
     hasPreviousPage |-> page > 1]

\* GET / up to the await of prisma.issue.count: the page is read
ListFind(headers, query) ==
    LET req == [headers |-> headers, query |-> query]
        guard == authenticateToken(headers, now)
        page == OrDefault(ParseInt(query, "page"), DefaultPage)
        limit == OrDefault(ParseInt(query, "limit"), DefaultLimit)
        skip == (page - 1) * limit
    IN
    IF ~guard.next
    THEN Rejected("list", req, guard)
    ELSE LET where == ListWhere(query, guard.user) IN
         /\ IF skip < 0 \/ WhereRefused(where)
            THEN /\ resp' = Reply("list", req, 500,
                        [success |-> FALSE, message |-> "Error fetching issues",
                         error |-> "Invalid prisma.issue.findMany() invocation"])
                 /\ UNCHANGED inflight
            ELSE /\ BagCardinality(inflight) < MaxInflight
                 /\ \E s \in OrderedByCreatedAtDesc({x \in issues : Matches(x, where)}) :
                        Suspend([op |-> "list", req |-> req, where |-> where,
                                 page |-> page, limit |-> limit,
                                 issues |-> [i \in DOMAIN SkipTake(s, skip, limit) |->
                                                IncludeUser(SkipTake(s, skip, limit)[i])]])
         /\ UNCHANGED <<users, issues, nextUserId, nextIssueId, now>>

\* prisma.issue.count({ where }) and the 200
ListCount(r) ==
    LET totalCount == Cardinality({x \in issues : Matches(x, r.where)}) IN
    /\ r.op = "list"
    /\ Resume(r)
    /\ resp' = Reply("list", r.req, 200,
            [success |-> TRUE,
             data |-> [issues |-> r.issues,
                       pagination |-> Pagination(r.page, r.limit, totalCount)]])
    /\ UNCHANGED <<users, issues, nextUserId, nextIssueId, now>>

----------------------------------------------------------------------------
(* What clients send *)

Email1 == <<"a", "@", "b", ".", "c">>

Email1Upper == <<"A", "@", "b", ".", "c">>

Email2 == <<"d", "@", "b", ".", "c">>

EmailNoAt == <<"a", "b", ".", "c">>

Password1 == <<"s", "e", "c", "r", "e", "t">>

Password2 == <<"h", "u", "n", "t", "e", "r">>

PasswordShort == <<"s", "e", "c", "r", "e">>

\* register: two spellings of one address, a second address, and one body
\* for each validation rule
RegisterBodies ==
    {[email |-> Email1, password |-> Password1],
     [email |-> Email1Upper, password |-> Password1, name |-> "Ann"],
     [email |-> Email2, password |-> Password2, name |-> ""],
     [email |-> Email1, password |-> Password2, name |-> "Bob"],
     [email |-> EmailNoAt, password |-> Password1],
     [email |-> Email1, password |-> PasswordShort],
     [email |-> Email1],
     [password |-> Password1]}

LoginBodies ==
    {[email |-> Email1, password |-> Password1],
     [email |-> Email1, password |-> Password2],
     [email |-> Email1Upper, password |-> Password1],
     [email |-> Email2, password |-> Password1],
     [email |-> Email2, password |-> Password2],
     [email |-> Email1]}

Bearer == [kind |-> "text", text |-> "Bearer"]

\* a token an attacker signs with a key of their own
Forged(userId) ==
    [kind |-> "jwt", userId |-> userId, email |-> Email1, iat |-> now,
     exp |-> now + TokenTTL, key |-> "attacker"]

\* The server keeps no record of the tokens it signs. A client can hold
\* the token of any register or login that can have happened: one for each
\* user, signed at the user's creation or at any later instant of the clock.
Signed ==
    UNION {{JwtSign([userId |-> u.id, email |-> u.email], t) :
                t \in {k * TokenTTL : k \in 0..MaxTicks} \cap (u.createdAt)..now} :
           u \in users}

RequestHeaders ==
    {<<>>, [authorization |-> <<Bearer>>],
     [authorization |-> <<Bearer, [kind |-> "text", text |-> "garbage"]>>],
     [authorization |-> <<Bearer, Forged(1)>>]}
    \cup {[authorization |-> <<Bearer, t>>] : t \in Signed}

Title1 == <<"B", "u", "g">>

Title1Padded == <<" ", "B", "u", "g", " ">>

Title2 == <<"A", "d", "d", " ", "U", "I">>

TitleShort == <<" ", "U", "I", " ">>

Description1 == <<"b", "u", "g", " ", "r", "e", "p", "o", "r", "t">>

Description2 == <<"n", "e", "w", " ", "b", "u", "t", "t", "o", "n", "s">>

DescriptionShort == <<"t", "o", "o", " ", "s", "h", "o", "r", "t">>

CreateBodies ==
    {[title |-> Title1Padded, description |-> Description1],
     [title |-> TitleShort, description |-> Description1],
     [title |-> Title1, description |-> DescriptionShort],
     [title |-> Title1],
     [title |-> Title1, description |-> Description1, status |-> "Bogus"]}

UpdateBodies ==
    {[status |-> "Closed"],
     [title |-> Title2, status |-> "Bogus"],
     [title |-> TitleShort],
     <<>>}

\* ids: decimal, decimal with a tail that parseInt drops, and no number
IdParams ==
    {[id |-> <<"1">>], [id |-> <<"2", "x">>], [id |-> <<"3">>], [id |-> <<"x">>]}

ListQueries ==
    {<<>>,
     [limit |-> <<"1">>],
     [page |-> <<"2">>, limit |-> <<"1">>],
     [limit |-> <<"-", "1">>],
     [page |-> <<"-", "1">>],
     [page |-> <<"x">>, limit |-> <<"0">>],
     [search |-> <<"B", "U", "G">>],
     [status |-> "Open"],
     [status |-> "Bogus"],
     [status |-> "Open", priority |-> "High"],
     [search |-> <<"u">>, severity |-> "Low", limit |-> <<"1">>]}

----------------------------------------------------------------------------
(* The client: the issues slice of the Redux store                         *)
(* (null is Null, or the empty tuple where a record may stand; a value     *)
(* whose JavaScript type matters carries the type)                         *)

initialState ==
    [issues |-> <<>>,
     currentIssue |-> <<>>,
     pagination |-> [currentPage |-> 1, totalPages |-> 1, totalCount |-> 0,
                     limit |-> 10, hasNextPage |-> FALSE,
                     hasPreviousPage |-> FALSE],
     filters |-> [search |-> <<>>, status |-> "", priority |-> "", severity |-> ""],
     stats |-> [Open |-> 0, InProgress |-> 0, Resolved |-> 0, Closed |-> 0, total |-> 0],
     loading |-> FALSE,
     statsLoading |-> FALSE,
     actionLoading |-> FALSE,
     error |-> Null]

JsString(chars) == [type |-> "string", value |-> chars]

\* n === v for a number n: false for a value of another type
StrictEquals(n, v) == v.type = "number" /\ v.value = n

\* { ...a, ...b }
Spread(a, b) ==
    [k \in DOMAIN a \cup DOMAIN b |-> IF k \in DOMAIN b THEN b[k] ELSE a[k]]

\* setFilters that empties the filters the payload does not hold
setFiltersResetting(s, payload) ==
    [s EXCEPT !.filters = Spread([search |-> <<>>, status |-> "", priority |-> "",
                                  severity |-> ""], payload),
              !.pagination.currentPage = 1]

setFilters(s, payload) ==
    [s EXCEPT !.filters = Spread(s.filters, payload), !.pagination.currentPage = 1]

clearFilters(s) ==
    [s EXCEPT !.filters = [search |-> <<>>, status |-> "", priority |-> "",
                           severity |-> ""],
              !.pagination.currentPage = 1]

setPage(s, payload) == [s EXCEPT !.pagination.currentPage = payload]

clearCurrentIssue(s) == [s EXCEPT !.currentIssue = <<>>]

fetchIssuesPending(s) == [s EXCEPT !.loading = TRUE, !.error = Null]

fetchIssuesFulfilled(s, payload) ==
    [s EXCEPT !.loading = FALSE, !.issues = payload.issues,
              !.pagination = payload.pagination]

fetchIssuesRejected(s, payload) == [s EXCEPT !.loading = FALSE, !.error = payload]

fetchIssueByIdPending(s) == [s EXCEPT !.loading = TRUE, !.error = Null]

fetchIssueByIdFulfilled(s, payload) ==
    [s EXCEPT !.loading = FALSE, !.currentIssue = <<payload>>]

fetchIssueByIdRejected(s, payload) == [s EXCEPT !.loading = FALSE, !.error = payload]

fetchIssueStatsPending(s) == [s EXCEPT !.statsLoading = TRUE]

fetchIssueStatsFulfilled(s, payload) ==
    [s EXCEPT !.statsLoading = FALSE, !.stats = payload]

fetchIssueStatsRejected(s, payload) ==
    [s EXCEPT !.statsLoading = FALSE, !.error = payload]

createIssuePending(s) == [s EXCEPT !.actionLoading = TRUE, !.error = Null]

createIssueFulfilled(s, payload) ==
    [s EXCEPT !.actionLoading = FALSE,
              !.issues = <<payload>> \o s.issues,
              !.pagination.totalCount = s.pagination.totalCount + 1]

createIssueRejected(s, payload) == [s EXCEPT !.actionLoading = FALSE, !.error = payload]

updateIssuePending(s) == [s EXCEPT !.actionLoading = TRUE, !.error = Null]

\* state.issues.findIndex(issue => issue.id === id), 0 for -1
FindIndex(rows, id) ==
    IF \E i \in DOMAIN rows : rows[i].id = id
    THEN CHOOSE i \in DOMAIN rows :
            rows[i].id = id /\ \A j \in 1..(i - 1) : rows[j].id /= id
    ELSE 0

updateIssueFulfilled(s, payload) ==
    LET index == FindIndex(s.issues, payload.id) IN
    [s EXCEPT !.actionLoading = FALSE,
              !.issues = IF index /= 0
                         THEN [s.issues EXCEPT ![index] = payload]
                         ELSE s.issues,
              !.currentIssue = IF s.currentIssue /= <<>> /\ s.currentIssue[1].id = payload.id
                               THEN <<payload>>
                               ELSE s.currentIssue]

updateIssueRejected(s, payload) == [s EXCEPT !.actionLoading = FALSE, !.error = payload]

deleteIssuePending(s) == [s EXCEPT !.actionLoading = TRUE, !.error = Null]

\* state.issues.filter(issue => issue.id !== payload)
FilterOut(rows, payload) ==
    LET Kept(issue) == ~StrictEquals(issue.id, payload) IN SelectSeq(rows, Kept)

deleteIssueFulfilled(s, payload) ==
    [s EXCEPT !.actionLoading = FALSE,
              !.issues = FilterOut(s.issues, payload),
              !.pagination.totalCount = s.pagination.totalCount - 1,
              !.currentIssue = IF s.currentIssue /= <<>>
                                  /\ StrictEquals(s.currentIssue[1].id, payload)
                               THEN <<>>
                               ELSE s.currentIssue]

deleteIssueRejected(s, payload) == [s EXCEPT !.actionLoading = FALSE, !.error = payload]

----------------------------------------------------------------------------
(* The auth service from an empty database *)

InitAuth ==
    /\ users = {}
    /\ issues = {}
    /\ nextUserId = 1
    /\ nextIssueId = 1
    /\ now = 0
    /\ inflight = EmptyBag
    /\ resp = NoResponse
    /\ state = initialState
    /\ pending = EmptyBag

NextAuth ==
    \/ \E body \in RegisterBodies : RegisterFind(body) /\ UNCHANGED clientVars
    \/ \E r \in BagToSet(inflight) : RegisterCreate(r) /\ UNCHANGED clientVars
    \/ \E body \in LoginBodies : Login(body) /\ UNCHANGED clientVars
    \/ \E headers \in RequestHeaders : Me(headers) /\ UNCHANGED clientVars
    \/ Tick /\ UNCHANGED clientVars

SpecAuth == InitAuth /\ [][NextAuth]_vars

----------------------------------------------------------------------------
(* The whole API, one request at a time, a token lifetime after the first  *)
(* user registered                                                         *)

User1 ==
    [id |-> 1, email |-> Email1Upper, password |-> BcryptHash(Password1, saltRounds),
     name |-> "Ann", createdAt |-> 0, updatedAt |-> 0]

Init ==
    /\ users = {User1}
    /\ issues = {}
    /\ nextUserId = 2
    /\ nextIssueId = 1
    /\ now = TokenTTL
    /\ inflight = EmptyBag
    /\ resp = NoResponse
    /\ state = initialState
    /\ pending = EmptyBag

\* the headers the guard lets through now, and those it stops
PassingHeaders == {h \in RequestHeaders : authenticateToken(h, now).next}

StoppedHeaders == RequestHeaders \ PassingHeaders

\* every input with the headers that pass, one input with those that do not
Requests(inputs) ==
    (PassingHeaders \X inputs) \cup (StoppedHeaders \X {CHOOSE i \in inputs : TRUE})

\* one request at a time: a request starts when none is suspended
SeqRegister ==
    /\ inflight = EmptyBag
    /\ \E body \in {[email |-> Email2, password |-> Password2],
                    [email |-> Email1, password |-> Password1]} : RegisterFind(body)

SeqLogin ==
    /\ inflight = EmptyBag
    /\ \E body \in {[email |-> Email1, password |-> Password1],
                    [email |-> Email2, password |-> Password1]} : Login(body)

SeqMe == inflight = EmptyBag /\ \E headers \in RequestHeaders : Me(headers)

SeqStats == inflight = EmptyBag /\ \E headers \in RequestHeaders : Stats(headers)

SeqList ==
    inflight = EmptyBag /\ \E rq \in Requests(ListQueries) : ListFind(rq[1], rq[2])

SeqGetById ==
    inflight = EmptyBag /\ \E rq \in Requests(IdParams) : GetById(rq[1], rq[2])

SeqCreate ==
    inflight = EmptyBag /\ \E rq \in Requests(CreateBodies) : Create(rq[1], rq[2])

SeqUpdate ==
    /\ inflight = EmptyBag
    /\ \E rq \in Requests(IdParams \X UpdateBodies) :
            UpdateFind(rq[1], rq[2][1], rq[2][2])

SeqDelete ==
    inflight = EmptyBag /\ \E rq \in Requests(IdParams) : DeleteFind(rq[1], rq[2])

Next ==
    \/ SeqRegister /\ UNCHANGED clientVars
    \/ \E r \in BagToSet(inflight) : RegisterCreate(r) /\ UNCHANGED clientVars
    \/ SeqLogin /\ UNCHANGED clientVars
    \/ SeqMe /\ UNCHANGED clientVars
    \/ SeqStats /\ UNCHANGED clientVars
    \/ SeqList /\ UNCHANGED clientVars
    \/ \E r \in BagToSet(inflight) : ListCount(r) /\ UNCHANGED clientVars
    \/ SeqGetById /\ UNCHANGED clientVars
    \/ SeqCreate /\ UNCHANGED clientVars
    \/ SeqUpdate /\ UNCHANGED clientVars
    \/ \E r \in BagToSet(inflight) : UpdateWrite(r) /\ UNCHANGED clientVars
    \/ SeqDelete /\ UNCHANGED clientVars
    \/ \E r \in BagToSet(inflight) : DeleteWrite(r) /\ UNCHANGED clientVars

Spec == Init /\ [][Next]_vars

----------------------------------------------------------------------------
(* Listing and counting: two users fill the store, then list and count it  *)

User2 ==
    [id |-> 2, email |-> Email2, password |-> BcryptHash(Password2, saltRounds),
     name |-> Null, createdAt |-> 0, updatedAt |-> 0]

\* the header with the token register signed for the user
TokenHeaders(u) ==
    [authorization |->
        <<Bearer, JwtSign([userId |-> u.id, email |-> u.email], u.createdAt)>>]

Headers1 == TokenHeaders(User1)

Headers2 == TokenHeaders(User2)

\* issues that differ in every field the list can filter on
IssueBug == [title |-> Title1, description |-> Description1]

IssueUI ==
    [title |-> Title2, description |-> Description2, status |-> "Closed",
     priority |-> "High", severity |-> "Low"]

IssueBugHigh ==
    [title |-> Title1, description |-> Description2, status |-> "Resolved",
     priority |-> "High"]

ListCreates ==
    ({TokenHeaders(User1)} \X {IssueBug, IssueUI, IssueBugHigh})
    \cup ({TokenHeaders(User2)} \X {IssueUI})

\* queries: pages, keys the route does not read, each filter alone and
\* together, terms in another case, empty values as a form sends them
FilterQueries ==
    {<<>>,
     [limit |-> <<"1">>],
     [page |-> <<"2">>, limit |-> <<"1">>],
     [sortBy |-> "title", order |-> "asc"],
     [status |-> "", search |-> <<>>],
     [status |-> "Closed"],
     [status |-> "Bogus"],
     [priority |-> "High"],
     [status |-> "Closed", priority |-> "High"],
     [priority |-> "High", severity |-> "Medium", limit |-> <<"1">>],
     [search |-> <<"B", "U", "G">>],
     [search |-> <<"b", "u", "t">>],
     [search |-> <<"b", "u", "g">>, priority |-> "High"],
     [search |-> <<"z">>]}

InitList ==
    /\ users = {User1, User2}
    /\ issues = {}
    /\ nextUserId = 3
    /\ nextIssueId = 1
    /\ now = 0
    /\ inflight = EmptyBag
    /\ resp = NoResponse
    /\ state = initialState
    /\ pending = EmptyBag

\* the clock moves on between two creates (createdAt has millisecond steps)
Millisecond ==
    /\ inflight = EmptyBag
    /\ RoomForIssue
    /\ \E x \in issues : x.createdAt = now
    /\ now' = now + 1
    /\ resp' = NoResponse
    /\ UNCHANGED <<users, issues, nextUserId, nextIssueId, inflight>>

FillStore == inflight = EmptyBag /\ \E rq \in ListCreates : Create(rq[1], rq[2])

ListStore ==
    /\ inflight = EmptyBag
    /\ \E u \in users, query \in FilterQueries : ListFind(TokenHeaders(u), query)

CountStore == inflight = EmptyBag /\ \E u \in users : Stats(TokenHeaders(u))

NextList ==
    \/ FillStore /\ UNCHANGED clientVars
    \/ Millisecond /\ UNCHANGED clientVars
    \/ ListStore /\ UNCHANGED clientVars
    \/ \E r \in BagToSet(inflight) : ListCount(r) /\ UNCHANGED clientVars
    \/ CountStore /\ UNCHANGED clientVars

SpecList == InitList /\ [][NextList]_vars

----------------------------------------------------------------------------
(* Creating issues: bodies at and around every limit of the validation     *)

\* a text of n characters
Filler(n) == [i \in 1..n |-> "x"]

Padded(s) == <<" ">> \o s \o <<" ", " ">>

Blank == <<" ", " ", " ">>

BoundaryBodies ==
    {[title |-> Title1Padded, description |-> Padded(Description1)],
     [title |-> TitleShort, description |-> Description1],
     [title |-> Blank, description |-> Description1],
     [title |-> <<>>, description |-> Description1],
     [description |-> Description1],
     [title |-> Title1],
     [title |-> Filler(TitleColumnWidth), description |-> Description1],
     [title |-> Filler(TitleColumnWidth + 1), description |-> Description1],
     [title |-> Padded(Filler(MaxTitleLength)), description |-> Description1],
     [title |-> Filler(MaxTitleLength + 1), description |-> Description1],
     [title |-> Title1, description |-> Padded(DescriptionShort)],
     [title |-> Title2, description |-> Filler(MaxDescriptionLength)],
     [title |-> Title2, description |-> Filler(MaxDescriptionLength + 1)],
     [title |-> Title1, description |-> Description1, status |-> "Bogus"],
     [title |-> Title1, description |-> Description1, priority |-> "Urgent"],
     [title |-> Title1, description |-> Description1, severity |-> "low"],
     [title |-> Title1, description |-> Description2, status |-> "",
      severity |-> "High"],
     [title |-> Title2, description |-> Description1, priority |-> "Critical",
      userId |-> 2]}

BoundaryCreates ==
    ({TokenHeaders(User1)} \X BoundaryBodies)
    \cup ({TokenHeaders(User2)} \X
            {[title |-> Title1, description |-> Description1, status |-> "Resolved",
              priority |-> "Low", severity |-> "Critical", userId |-> 1]})

CreateAtBoundary == \E rq \in BoundaryCreates : Create(rq[1], rq[2])

NextCreate ==
    \/ CreateAtBoundary /\ UNCHANGED clientVars
    \/ Millisecond /\ UNCHANGED clientVars

SpecCreate == InitList /\ [][NextCreate]_vars

----------------------------------------------------------------------------
(* Updating an issue: the first user's issue, a millisecond after it was   *)
(* created, with bodies that leave fields out and bodies that are invalid  *)

Issue1 ==
    [id |-> 1, title |-> Title2, description |-> Description2, status |-> "Closed",
     priority |-> "High", severity |-> "Low", userId |-> 1, createdAt |-> 0,
     updatedAt |-> 0]

InitUpdate ==
    /\ users = {User1, User2}
    /\ issues = {Issue1}
    /\ nextUserId = 3
    /\ nextIssueId = 2
    /\ now = 1
    /\ inflight = EmptyBag
    /\ resp = NoResponse
    /\ state = initialState
    /\ pending = EmptyBag

PartialBodies ==
    {<<>>,
     [status |-> "Open"],
     [title |-> Title1Padded],
     [description |-> Padded(Description1)],
     [priority |-> "Low", severity |-> "Critical"],
     [id |-> 9, userId |-> 2, createdAt |-> 5, status |-> "InProgress"]}

FaultyBodies ==
    {[title |-> TitleShort, status |-> "Open"],
     [title |-> TitleShort, status |-> "Bogus"],
     [title |-> Title1, description |-> DescriptionShort, status |-> "Bogus"],
     [status |-> "Bogus", priority |-> "Urgent"],
     [priority |-> "Urgent", severity |-> "Low"],
     [title |-> Title1, severity |-> "low"],
     [title |-> Filler(MaxTitleLength + 1)],
     [description |-> Filler(MaxDescriptionLength + 1), priority |-> "Low"],
     [status |-> ""]}

UpdateRequests ==
    ({TokenHeaders(User1)} \X {[id |-> <<"1">>]} \X (PartialBodies \cup FaultyBodies))
    \cup ({TokenHeaders(User1)} \X {[id |-> <<"2">>]} \X {[status |-> "Open"]})
    \cup ({TokenHeaders(User2)} \X {[id |-> <<"1">>]} \X {[status |-> "Open"]})

UpdateStart ==
    /\ inflight = EmptyBag
    /\ \E rq \in UpdateRequests : UpdateFind(rq[1], rq[2], rq[3])

\* the second user creates issues beside the one under update
CreateBeside ==
    /\ inflight = EmptyBag
    /\ \E body \in {[title |-> Title1, description |-> Description1,
                      status |-> "Resolved"],
                     [title |-> Title1, description |-> Description1,
                      status |-> "Bogus"],
                     [title |-> Title1, description |-> Description1,
                      severity |-> "Urgent"]} :
            Create(Headers2, body)

NextUpdate ==
    \/ UpdateStart /\ UNCHANGED clientVars
    \/ \E r \in BagToSet(inflight) : UpdateWrite(r) /\ UNCHANGED clientVars
    \/ CreateBeside /\ UNCHANGED clientVars

SpecUpdate == InitUpdate /\ [][NextUpdate]_vars

----------------------------------------------------------------------------
(* The life of an issue: created, moved between statuses, deleted, and     *)
(* looked up afterwards; one request at a time                             *)

StatusBodies == {[status |-> t] : t \in validStatuses}

LifeIds == {[id |-> <<"1">>], [id |-> <<"2">>]}

LifeCreate ==
    /\ inflight = EmptyBag
    /\ \E rq \in {<<Headers1, IssueUI>>, <<Headers2, IssueBug>>} :
            Create(rq[1], rq[2])

LifeUpdate ==
    /\ inflight = EmptyBag
    /\ \E params \in LifeIds, body \in StatusBodies :
            UpdateFind(Headers1, params, body)

LifeDelete ==
    /\ inflight = EmptyBag
    /\ \E u \in users, params \in LifeIds : DeleteFind(TokenHeaders(u), params)

LifeGet ==
    /\ inflight = EmptyBag
    /\ \E params \in LifeIds : GetById(Headers1, params)

LifeList == inflight = EmptyBag /\ ListFind(Headers1, <<>>)

LifeStats == inflight = EmptyBag /\ Stats(Headers1)

NextLife ==
    \/ LifeCreate /\ UNCHANGED clientVars
    \/ LifeUpdate /\ UNCHANGED clientVars
    \/ \E r \in BagToSet(inflight) : UpdateWrite(r) /\ UNCHANGED clientVars
    \/ LifeDelete /\ UNCHANGED clientVars
    \/ \E r \in BagToSet(inflight) : DeleteWrite(r) /\ UNCHANGED clientVars
    \/ LifeGet /\ UNCHANGED clientVars
    \/ LifeList /\ UNCHANGED clientVars
    \/ \E r \in BagToSet(inflight) : ListCount(r) /\ UNCHANGED clientVars
    \/ LifeStats /\ UNCHANGED clientVars

SpecLife == InitList /\ [][NextLife]_vars

----------------------------------------------------------------------------
(* Properties *)

ProtectedOps == {"me", "stats", "list", "get", "create", "update", "delete"}

\* the request carries a token the server signed that has not expired at t
Genuine(headers, t) ==
    /\ "authorization" \in DOMAIN headers
    /\ Len(headers.authorization) >= 2
    /\ headers.authorization[2] \in Signed
    /\ t < headers.authorization[2].exp

TokenPresent(headers) ==
    /\ "authorization" \in DOMAIN headers
    /\ Len(headers.authorization) >= 2
    /\ headers.authorization[2] /= [kind |-> "text", text |-> ""]

\* the user the request's token names
Caller(req) == req.headers.authorization[2].userId

\* the id the request addresses
AddressedId(req) == ParseIntStr(req.params.id)

\* C1: every issue in a list response belongs to the caller, whatever the
\* query holds.
C1_ListOnlyOwnIssues ==
    (resp.op = "list" /\ resp.status = 200) =>
        \A i \in DOMAIN resp.body.data.issues :
            resp.body.data.issues[i].userId = Caller(resp.req)

\* a list answered with issues while another user holds an issue that the
\* filters of the query would let through
C1_Witness ==
    /\ resp.op = "list"
    /\ resp.status = 200
    /\ resp.body.data.issues /= <<>>
    /\ \E x \in issues :
        /\ x.userId /= Caller(resp.req)
        /\ Matches(x, ListWhere(resp.req.query, [userId |-> x.userId]))

\* C2: an issue changes or disappears only in a step that answers 200 to
\* an update or delete of that issue by its owner; an update or delete of
\* an existing issue by another user answers 403 and changes nothing.
C2_OnlyOwnerMutates ==
    [][/\ \A x \in issues :
            x \notin issues' =>
                /\ resp'.op \in {"update", "delete"}
                /\ resp'.status = 200
                /\ Genuine(resp'.req.headers, resp'.at)
                /\ Caller(resp'.req) = x.userId
                /\ AddressedId(resp'.req) = [nan |-> FALSE, n |-> x.id]
       /\ (/\ resp'.op \in {"update", "delete"}
           /\ Genuine(resp'.req.headers, resp'.at)
           /\ \E x \in issues :
                /\ AddressedId(resp'.req) = [nan |-> FALSE, n |-> x.id]
                /\ x.userId /= Caller(resp'.req))
          => /\ resp'.status = 403
             /\ UNCHANGED <<users, issues, nextUserId, nextIssueId, inflight>>
      ]_vars

\* another user's issue is in the store and the update or delete was refused
C2_Witness ==
    /\ resp.op \in {"update", "delete"}
    /\ Genuine(resp.req.headers, resp.at)
    /\ resp.status = 403
    /\ resp.body.success = FALSE
    /\ \E x \in issues :
        /\ AddressedId(resp.req) = [nan |-> FALSE, n |-> x.id]
        /\ x.userId /= Caller(resp.req)

\* the answer the precedence of the claim gives for a request on /:id
C3_Expected(req, rows) ==
    LET id == AddressedId(req) IN
    IF id.nan THEN 400
    ELSE IF ~\E x \in rows : x.id = id.n THEN 404
    ELSE IF \E x \in rows : x.id = id.n /\ x.userId /= Caller(req) THEN 403
    ELSE 0

\* C3: get, update and delete answer 400 for an id that is no integer,
\* else 404 when no issue has the id, else 403 when it is another user's;
\* in update this is so whatever the body holds, and the body is validated
\* only when the three checks passed.
C3_IdCheckPrecedence ==
    [][(resp'.op \in {"get", "update", "delete"} /\ Genuine(resp'.req.headers, resp'.at))
        => LET expected == C3_Expected(resp'.req, issues) IN
           IF expected /= 0
           THEN /\ resp'.status = expected
                /\ resp'.body.success = FALSE
                /\ UNCHANGED issues
           ELSE /\ resp'.status \notin {403, 404}
                /\ resp'.status = 400 =>
                        resp'.op = "update" /\ UpdateInvalid(resp'.req.body) /= ""
      ]_vars

\* an update whose body is invalid too is refused for the issue's owner
C3_Witness ==
    /\ resp.op = "update"
    /\ Genuine(resp.req.headers, resp.at)
    /\ resp.status = 403
    /\ UpdateInvalid(resp.req.body) /= ""
    /\ \E x \in issues : AddressedId(resp.req) = [nan |-> FALSE, n |-> x.id]

\* C4: a protected request without a token the server signed, or with an
\* expired one, is answered by the guard and changes nothing; every answer
\* of a handler, and every suspended handler, belongs to a request with a
\* verified token.
C4_GuardBeforeHandlers ==
    [][/\ resp'.op \in ProtectedOps =>
            IF Genuine(resp'.req.headers, resp'.at)
            THEN /\ "message" \in DOMAIN resp'.body =>
                        resp'.body.message \notin {"Access denied. No token provided.",
                                                   "Invalid or expired token."}
                 /\ (resp'.op = "me" /\ resp'.status = 200) =>
                        resp'.body.data.user.id = Caller(resp'.req)
                 /\ (resp'.op = "create" /\ resp'.status = 201) =>
                        resp'.body.data.issue.userId = Caller(resp'.req)
            ELSE /\ resp'.status \in {MissingTokenStatus, InvalidTokenStatus}
                 /\ resp'.body.success = FALSE
                 /\ "data" \notin DOMAIN resp'.body
                 /\ UNCHANGED <<users, issues, nextUserId, nextIssueId, inflight>>
       /\ \A r \in BagToSet(inflight') :
            r.op \in {"list", "update", "delete"} => Genuine(r.req.headers, now)
      ]_vars

\* a request with a forged token was answered by the guard
C4_Witness ==
    /\ resp.op \in ProtectedOps \ {"me"}
    /\ TokenPresent(resp.req.headers)
    /\ ~Genuine(resp.req.headers, resp.at)
    /\ resp.status >= 400
    /\ issues /= {}

\* C5: a protected request whose token is present but does not verify is
\* answered 401, like a request without a token.
C5_InvalidTokenIs401 ==
    (/\ resp.op \in ProtectedOps
     /\ TokenPresent(resp.req.headers)
     /\ ~Genuine(resp.req.headers, resp.at))
    => resp.status = 401

\* a view of a user in a response holds no password
CleanUser(view, keys) == "password" \notin DOMAIN view /\ DOMAIN view \subseteq keys

OwnerFields == {"id", "email", "name"}

\* C6: no user object of any response holds the password: not the user of
\* register, login and me, and not the owner attached to an issue.
C6_NoPasswordInResponses ==
    /\ (resp.op \in {"register", "login", "me"} /\ "data" \in DOMAIN resp.body) =>
            CleanUser(resp.body.data.user, DOMAIN User1 \ {"password"})
    /\ (resp.op \in {"get", "create", "update"} /\ "data" \in DOMAIN resp.body) =>
            CleanUser(resp.body.data.issue.user, OwnerFields)
    /\ (resp.op = "list" /\ "data" \in DOMAIN resp.body) =>
            \A i \in DOMAIN resp.body.data.issues :
                CleanUser(resp.body.data.issues[i].user, OwnerFields)
    /\ \A k \in DOMAIN resp.body : k \in {"success", "message", "data", "error"}

\* a login succeeded
C6_Witness ==
    /\ resp.op = "login"
    /\ resp.status = 200
    /\ resp.body.data.user.email \in {u.email : u \in users}

C6_WitnessOwner ==
    /\ resp.op = "list"
    /\ resp.status = 200
    /\ resp.body.data.issues /= <<>>

\* C7: a register for an email that a user already has answers 409,
\* creates no user and leaves the users as they are.
C7_DuplicateEmailConflict ==
    [][\A body \in RegisterBodies :
        (/\ RegisterInvalid(body) = ""
         /\ \E u \in users : u.email = body.email
         /\ RegisterFind(body))
        => /\ resp'.op = "register"
           /\ resp'.req.body = body
           /\ resp'.status = 409
           /\ UNCHANGED <<users, nextUserId, inflight>>
      ]_vars

\* a second register of an email, with another password, was refused
C7_Witness ==
    /\ resp.op = "register"
    /\ resp.status = 409
    /\ \E u \in users :
        /\ u.email = resp.req.body.email
        /\ u.password /= BcryptHash(resp.req.body.password, saltRounds)

\* C8: a register with valid input is answered 201 or 409, also when
\* another register of the same email runs at the same time, and no two
\* users have one email.
C8_ConcurrentRegisterConflict ==
    /\ (resp.op = "register" /\ RegisterInvalid(resp.req.body) = "") =>
            resp.status \in {201, 409}
    /\ \A u, v \in users : CollationEq(u.email, v.email) => u = v

\* C9: login with a wrong password and login with an unknown email get
\* the same status and the same body.
C9_LoginRefusalsAlike ==
    (/\ resp.op = "login"
     /\ ~FalsyChars(resp.req.body, "email")
     /\ ~FalsyChars(resp.req.body, "password")
     /\ \A u \in UserFindByEmail(resp.req.body.email) :
            u.password /= BcryptHash(resp.req.body.password, saltRounds))
    => /\ resp.status = 401
       /\ resp.body = [success |-> FALSE, message |-> "Invalid email or password"]

\* a login with a wrong password for a registered email was refused
C9_Witness ==
    /\ resp.op = "login"
    /\ resp.status = 401
    /\ UserFindByEmail(resp.req.body.email) /= {}

\* C10: a list response holds at most `limit` issues, and hasNextPage is
\* page < totalPages, for the limit and page of its pagination object.
C10_PageWithinLimit ==
    (resp.op = "list" /\ resp.status = 200) =>
        LET p == resp.body.data.pagination IN
        /\ Len(resp.body.data.issues) <= p.limit
        /\ p.hasNextPage = (p.currentPage < p.totalPages)

----------------------------------------------------------------------------
(* Properties of the list and of the counts *)

\* the stored row behind an issue of a response (the owner projection off)
Stored(issue) == [k \in DOMAIN issue \ {"user"} |-> issue[k]]

\* the issues of a list response, as stored rows
Listed == [i \in DOMAIN resp.body.data.issues |-> Stored(resp.body.data.issues[i])]

Range(s) == {s[i] : i \in DOMAIN s}

Mine == {x \in issues : x.userId = Caller(resp.req)}

\* a query parameter counts as supplied when it is there and not empty
SuppliedWord(query, f) == f \in DOMAIN query /\ query[f] /= ""

SuppliedChars(query, f) == f \in DOMAIN query /\ query[f] /= <<>>

EnumFilters == {"status", "priority", "severity"}

CasePairs ==
    {<<"A", "a">>, <<"B", "b">>, <<"C", "c">>, <<"D", "d">>, <<"E", "e">>,
     <<"G", "g">>, <<"U", "u">>}

SameLetter(a, b) == a = b \/ <<a, b>> \in CasePairs \/ <<b, a>> \in CasePairs

\* s holds the term somewhere, letters compared without regard to case
HoldsTerm(s, term) ==
    \E i \in 0..(Len(s) - Len(term)) :
        \A k \in 1..Len(term) : SameLetter(s[i + k], term[k])

\* the caller's issues that satisfy everything the query supplies
Wanted(query) ==
    {x \in Mine :
        /\ \A f \in EnumFilters : SuppliedWord(query, f) => x[f] = query[f]
        /\ SuppliedChars(query, "search") =>
                HoldsTerm(x.title, query.search) \/ HoldsTerm(x.description, query.search)}

\* the arrangements of a set of rows, newest first
NewestFirst(rows) ==
    {s \in [1..Cardinality(rows) -> rows] :
        /\ Range(s) = rows
        /\ \A i \in 1..(Len(s) - 1) : s[i].createdAt >= s[i + 1].createdAt}

\* the part of an arrangement that page `page` of `limit` rows shows
PageOf(s, page, limit) ==
    [i \in 1..(IF Len(s) - (page - 1) * limit < 0 THEN 0
               ELSE IF Len(s) - (page - 1) * limit < limit
                    THEN Len(s) - (page - 1) * limit
                    ELSE limit) |-> s[(page - 1) * limit + i]]

ListAnswered == resp.op = "list" /\ resp.status = 200

C11_WitnessOthers ==
    /\ ListAnswered
    /\ DOMAIN resp.req.query = {}
    /\ Listed /= <<>>
    /\ Range(Listed) = Mine
    /\ issues /= Mine

\* the second page of one row holds the older of two issues
C11_WitnessPage ==
    /\ ListAnswered
    /\ resp.body.data.pagination.currentPage = 2
    /\ Len(Listed) = 1
    /\ \E x \in Mine : x.createdAt > Listed[1].createdAt

\* C12: every issue of a list response has the supplied status, priority
\* and severity, all of them at once and the caller as owner, and
\* totalCount is the number of the caller's issues that satisfy all that
\* the query supplies.
C12_EnumFiltersAnded ==
    ListAnswered =>
       /\ \A f \in EnumFilters :
            SuppliedWord(resp.req.query, f) =>
                \A i \in DOMAIN Listed : Listed[i][f] = resp.req.query[f]
       /\ Range(Listed) \subseteq Wanted(resp.req.query)
       /\ resp.body.data.pagination.totalCount = Cardinality(Wanted(resp.req.query))

\* two filters were supplied, an issue was returned, and the caller has
\* an issue that only one of the two filters lets through
C12_Witness ==
    /\ ListAnswered
    /\ SuppliedWord(resp.req.query, "status")
    /\ SuppliedWord(resp.req.query, "priority")
    /\ Listed /= <<>>
    /\ \E x \in Mine :
        /\ x.priority = resp.req.query.priority
        /\ x.status /= resp.req.query.status

\* C13: with a search term, the issues returned are the caller's issues
\* whose title or description holds the term in any case and that satisfy
\* the other supplied filters too: none else is returned, totalCount counts
\* exactly those, and a first page that is large enough holds them all.
C13_SearchIgnoresCase ==
    (ListAnswered /\ SuppliedChars(resp.req.query, "search"))
    => LET p == resp.body.data.pagination
           wanted == Wanted(resp.req.query)
       IN
       /\ Range(Listed) \subseteq wanted
       /\ p.totalCount = Cardinality(wanted)
       /\ (p.currentPage = 1 /\ p.limit >= Cardinality(wanted)) => Range(Listed) = wanted

\* a term in capitals found an issue written in small letters
C13_Witness ==
    /\ ListAnswered
    /\ SuppliedChars(resp.req.query, "search")
    /\ Listed /= <<>>
    /\ \E i \in DOMAIN Listed :
        /\ ~ContainsExactCase(Listed[i].title, resp.req.query.search)
        /\ ~ContainsExactCase(Listed[i].description, resp.req.query.search)
    /\ Mine \ Range(Listed) /= {}

\* a search together with a filter left out an issue that satisfies one of
\* the two
C13_WitnessAnded ==
    /\ ListAnswered
    /\ SuppliedChars(resp.req.query, "search")
    /\ SuppliedWord(resp.req.query, "priority")
    /\ Listed /= <<>>
    /\ \E x \in Mine \ Range(Listed) :
        HoldsTerm(x.title, resp.req.query.search) \/ x.priority = resp.req.query.priority

\* C14: the counts of a stats response have the four statuses as keys,
\* each with the number of the caller's issues in that status (0 when
\* there is none), and total is their sum, the number of the caller's
\* issues.
C14_StatsCountOwnIssues ==
    (resp.op = "stats" /\ resp.status = 200)
    => LET counts == resp.body.data.counts IN
       /\ DOMAIN counts = {"Open", "InProgress", "Resolved", "Closed"}
       /\ \A st \in DOMAIN counts :
            counts[st] = Cardinality({x \in Mine : x.status = st})
       /\ resp.body.data.total =
            counts.Open + counts.InProgress + counts.Resolved + counts.Closed
       /\ resp.body.data.total = Cardinality(Mine)

\* counts with a zero and a non-zero, while another user holds an issue
\* in a status the caller has an issue in as well
C14_Witness ==
    /\ resp.op = "stats"
    /\ resp.status = 200
    /\ resp.body.data.total >= 1
    /\ \E st \in DOMAIN resp.body.data.counts : resp.body.data.counts[st] = 0
    /\ \E x \in Mine, y \in issues \ Mine : x.status = y.status

\* a caller without issues gets zeros
C14_WitnessEmpty ==
    /\ resp.op = "stats"
    /\ resp.status = 200
    /\ Mine = {}
    /\ issues /= {}
    /\ resp.body.data.total = 0

----------------------------------------------------------------------------
(* Properties of create *)

EnumOf(f) ==
    CASE f = "status" -> {"Open", "InProgress", "Resolved", "Closed"}
      [] f = "priority" -> {"Low", "Medium", "High", "Critical"}
      [] f = "severity" -> {"Low", "Medium", "High", "Critical"}

DefaultOf(f) ==
    CASE f = "status" -> "Open" [] f = "priority" -> "Medium" [] f = "severity" -> "Medium"

\* a text field is missing when the body has no such key or an empty text
MissingText(body, f) == f \notin DOMAIN body \/ body[f] = <<>>

\* the cases in which the claim has create refuse the body; a status,
\* priority or severity counts as supplied when it is there and not empty
MustRefuse(body) ==
    \/ MissingText(body, "title")
    \/ MissingText(body, "description")
    \/ Len(Trim(body.title)) < 3
    \/ Len(Trim(body.title)) > 255
    \/ Len(Trim(body.description)) < 10
    \/ Len(Trim(body.description)) > 5000
    \/ \E f \in EnumFilters : SuppliedWord(body, f) /\ body[f] \notin EnumOf(f)

\* the bodies the claim has create accept
MustAccept(body) ==
    /\ ~MissingText(body, "title")
    /\ ~MissingText(body, "description")
    /\ Len(Trim(body.title)) \in 3..255
    /\ Len(Trim(body.description)) \in 10..5000
    /\ \A f \in EnumFilters : f \in DOMAIN body => body[f] \in EnumOf(f)

\* a create of an authenticated caller is answered in this step
CreateAnswered ==
    /\ resp'.op = "create"
    /\ Genuine(resp'.req.headers, resp'.at)

\* C15: create answers 400 and stores nothing when title or description
\* is missing, the trimmed title has fewer than 3 or more than 255
\* characters, the trimmed description fewer than 10 or more than 5000, or
\* a supplied status, priority or severity is outside its enum; a body
\* with none of these faults is not answered 400 (a title of 3 characters
\* passes, one of 2 does not).
C15_CreateRefusesInvalid ==
    [][CreateAnswered =>
        IF MustRefuse(resp'.req.body)
        THEN /\ resp'.status = 400
             /\ resp'.body.success = FALSE
             /\ UNCHANGED <<issues, nextIssueId>>
        ELSE resp'.status /= 400
      ]_vars

\* a title of 2 characters between spaces was refused after a title of 3
\* characters between spaces was stored
C15_Witness ==
    /\ resp.op = "create"
    /\ resp.status = 400
    /\ ~MissingText(resp.req.body, "title")
    /\ Len(Trim(resp.req.body.title)) = 2
    /\ Len(resp.req.body.title) >= 3
    /\ \E x \in issues : Len(x.title) = 3

\* C16: a create of an authenticated caller with a trimmed title of 3 to
\* 255 characters, a trimmed description of 10 to 5000 characters and
\* status, priority and severity each absent or in its enum answers 201 and
\* adds exactly one issue, whose title and description are the trimmed
\* inputs.
C16_CreateAcceptsValid ==
    [][(CreateAnswered /\ MustAccept(resp'.req.body)) =>
        /\ resp'.status = 201
        /\ \E x \in issues' :
            /\ x \notin issues
            /\ issues' = issues \cup {x}
            /\ x.title = Trim(resp'.req.body.title)
            /\ x.description = Trim(resp'.req.body.description)
      ]_vars

\* C17: the issue a successful create stores has the supplied status,
\* priority and severity, Open, Medium and Medium for those not supplied,
\* and the caller of the token as owner, whatever user id the body holds.
C17_CreateDefaultsAndOwner ==
    [][(CreateAnswered /\ resp'.status = 201) =>
        \E x \in issues' :
            /\ x \notin issues
            /\ issues' = issues \cup {x}
            /\ Stored(resp'.body.data.issue) = x
            /\ \A f \in EnumFilters :
                x[f] = IF SuppliedWord(resp'.req.body, f)
                       THEN resp'.req.body[f]
                       ELSE DefaultOf(f)
            /\ x.userId = Caller(resp'.req)
            /\ resp'.body.data.issue.user.id = Caller(resp'.req)
      ]_vars

\* a body naming another user as owner, with a priority and without status
\* and severity, was stored for the caller
C17_Witness ==
    /\ resp.op = "create"
    /\ resp.status = 201
    /\ "userId" \in DOMAIN resp.req.body
    /\ resp.req.body.userId /= Caller(resp.req)
    /\ "priority" \in DOMAIN resp.req.body
    /\ "status" \notin DOMAIN resp.req.body
    /\ \E x \in issues :
        /\ Stored(resp.body.data.issue) = x
        /\ x.userId = Caller(resp.req)
        /\ x.status = "Open"
        /\ x.priority = resp.req.body.priority

----------------------------------------------------------------------------
(* Properties of update *)

\* C18: every stored issue has its status, priority and severity inside
\* the declared enums, whatever bodies create and update were sent.
C18_StoredEnumsValid ==
    \A x \in issues :
        /\ x.status \in {"Open", "InProgress", "Resolved", "Closed"}
        /\ x.priority \in {"Low", "Medium", "High", "Critical"}
        /\ x.severity \in {"Low", "Medium", "High", "Critical"}

\* an update with a word outside the enums was answered, after an update
\* that was applied and beside an issue created with a status of its own
C18_Witness ==
    /\ resp.op = "update"
    /\ Genuine(resp.req.headers, resp.at)
    /\ \E f \in EnumFilters : f \in DOMAIN resp.req.body /\ resp.req.body[f] \notin EnumOf(f)
    /\ \E x \in issues : x.updatedAt > x.createdAt
    /\ \E x \in issues : x.userId = 2 /\ x.status = "Resolved"

EditableFields == {"title", "description", "status", "priority", "severity"}

\* the stored issue a request on /:id addresses
Addressed(req, rows) == CHOOSE x \in rows : x.id = AddressedId(req).n

\* an update of an authenticated caller is answered in this step
UpdateAnswered ==
    /\ resp'.op = "update"
    /\ Genuine(resp'.req.headers, resp'.at)

\* C19: a successful update leaves every field of title, description,
\* status, priority, severity that the body does not hold as it was stored,
\* and never changes the id, the owner or createdAt of the issue, whatever
\* the body holds; no step of an update changes these three of any issue.
C19_UpdateIsPartial ==
    [][/\ (UpdateAnswered /\ resp'.status = 200) =>
            LET old == Addressed(resp'.req, issues)
                new == Addressed(resp'.req, issues')
            IN  /\ \E x \in issues : x.id = AddressedId(resp'.req).n
                /\ \A f \in EditableFields \ DOMAIN resp'.req.body : new[f] = old[f]
                /\ new.id = old.id
                /\ new.userId = old.userId
                /\ new.createdAt = old.createdAt
                /\ Stored(resp'.body.data.issue) = new
                /\ issues' \ {new} = issues \ {old}
       /\ \A x \in issues :
            \E y \in issues' :
                y.id = x.id /\ y.userId = x.userId /\ y.createdAt = x.createdAt
      ]_vars

\* a body with a status and with an id, an owner and a creation instant of
\* its own was applied: the status is the new one, all else as before
C19_Witness ==
    /\ resp.op = "update"
    /\ resp.status = 200
    /\ {"id", "userId", "createdAt", "status"} \subseteq DOMAIN resp.req.body
    /\ \E x \in issues :
        /\ x.id = 1
        /\ x.id /= resp.req.body.id
        /\ x.userId /= resp.req.body.userId
        /\ x.createdAt /= resp.req.body.createdAt
        /\ x.status = resp.req.body.status
        /\ x.priority /= "Medium"
        /\ x.severity /= "Medium"

\* the rule of create for a field, applied to a value the body holds
BreaksRule(f, v) ==
    CASE f = "title" -> Len(Trim(v)) < 3 \/ Len(Trim(v)) > 255
      [] f = "description" -> Len(Trim(v)) < 10 \/ Len(Trim(v)) > 5000
      [] OTHER -> v \notin EnumOf(f)

FieldOrder == <<"title", "description", "status", "priority", "severity">>

\* the fields the body holds that break their rule
Faulty(body) == {f \in EditableFields \cap DOMAIN body : BreaksRule(f, body[f])}

\* the first of them in the order of validation
FirstFaulty(body) ==
    FieldOrder[CHOOSE i \in DOMAIN FieldOrder :
        /\ FieldOrder[i] \in Faulty(body)
        /\ \A j \in 1..(i - 1) : FieldOrder[j] \notin Faulty(body)]

\* the 400 messages that speak of a field
MessagesOf(f) ==
    CASE f = "title" -> {"Title must be at least 3 characters long",
                         "Title must not exceed 255 characters"}
      [] f = "description" -> {"Description must be at least 10 characters long",
                               "Description must not exceed 5000 characters"}
      [] f = "status" ->
            {"Invalid status. Must be one of: Open, InProgress, Resolved, Closed"}
      [] f = "priority" ->
            {"Invalid priority. Must be one of: Low, Medium, High, Critical"}
      [] f = "severity" ->
            {"Invalid severity. Must be one of: Low, Medium, High, Critical"}

\* C20: an update of the caller's own issue whose body holds a field that
\* breaks the rule create has for it is answered 400 with the message of
\* the first such field in the order title, description, status, priority,
\* severity, and changes nothing in the store; a body without such a field
\* is not answered 400.
C20_UpdateValidationOrder ==
    [][(UpdateAnswered /\ C3_Expected(resp'.req, issues) = 0) =>
        IF Faulty(resp'.req.body) /= {}
        THEN /\ resp'.status = 400
             /\ resp'.body.message \in MessagesOf(FirstFaulty(resp'.req.body))
             /\ UNCHANGED issues
        ELSE resp'.status /= 400
      ]_vars

\* a body with a valid title, a description too short and a wrong status
\* was refused for its description; the stored title is not the body's
C20_Witness ==
    /\ resp.op = "update"
    /\ resp.status = 400
    /\ {"title", "description", "status"} \subseteq DOMAIN resp.req.body
    /\ Faulty(resp.req.body) = {"description", "status"}
    /\ resp.body.message \in MessagesOf("description")
    /\ \E x \in issues : x.id = 1 /\ x.title /= Trim(resp.req.body.title)

----------------------------------------------------------------------------
(* Properties of delete and of the statuses *)

HasId(rows, id) == \E x \in rows : x.id = id

\* C21: a delete answered 200 removes the addressed issue of the caller
\* and nothing else, and leaves the users as they are; an id once removed
\* never comes back, a getById on an id the store does not hold answers 404,
\* and list and stats show stored issues only.
C21_DeleteRemovesExactlyOne ==
    [][/\ (resp'.op = "delete" /\ resp'.status = 200) =>
            \E x \in issues :
                /\ x.id = AddressedId(resp'.req).n
                /\ x.userId = Caller(resp'.req)
                /\ issues' = issues \ {x}
                /\ ~HasId(issues', x.id)
                /\ users' = users
       /\ \A id \in 1..(nextIssueId - 1) : ~HasId(issues, id) => ~HasId(issues', id)
       /\ (/\ resp'.op = "get"
           /\ ~AddressedId(resp'.req).nan
           /\ ~HasId(issues', AddressedId(resp'.req).n))
          => resp'.status = 404
       /\ (resp'.op = "list" /\ resp'.status = 200) =>
            \A i \in DOMAIN resp'.body.data.issues :
                Stored(resp'.body.data.issues[i]) \in issues'
       /\ (resp'.op = "stats" /\ resp'.status = 200) =>
            resp'.body.data.total =
                Cardinality({x \in issues' : x.userId = Caller(resp'.req)})
      ]_vars

\* the owner's delete was answered 200, the issue is gone, and another
\* issue of the owner and both users are still there
C21_Witness ==
    /\ resp.op = "delete"
    /\ resp.status = 200
    /\ ~HasId(issues, AddressedId(resp.req).n)
    /\ \E x \in issues : x.userId = Caller(resp.req)
    /\ users = {User1, User2}

\* after a delete, getById on the id answers 404 while the owner's other
\* issue is still stored
C21_WitnessGet ==
    /\ resp.op = "get"
    /\ resp.status = 404
    /\ AddressedId(resp.req).n < nextIssueId
    /\ issues /= {}

\* C22: an update {status: t} by the owner of an issue is answered 200 and
\* leaves the issue with status t, for every stored status and every t of
\* the four.
C22_AnyStatusTransition ==
    [][(/\ UpdateAnswered
        /\ DOMAIN resp'.req.body = {"status"}
        /\ resp'.req.body.status \in {"Open", "InProgress", "Resolved", "Closed"}
        /\ \E x \in issues :
            /\ x.id = AddressedId(resp'.req).n
            /\ x.userId = Caller(resp'.req)
            /\ x.status \in {"Open", "InProgress", "Resolved", "Closed"})
       => /\ resp'.status = 200
          /\ Addressed(resp'.req, issues').status = resp'.req.body.status
          /\ resp'.body.data.issue.status = resp'.req.body.status
      ]_vars

\* issues are created Closed here: one was moved to Resolved and the
\* other, by the update just answered, to Open
C22_Witness ==
    /\ resp.op = "update"
    /\ resp.status = 200
    /\ resp.req.body.status = "Open"
    /\ Addressed(resp.req, issues).status = "Open"
    /\ \E x \in issues : x.userId = Caller(resp.req) /\ x.status = "Resolved"

----------------------------------------------------------------------------
(* Updates of one issue by its owner that overlap: each handler reads the  *)
(* issue, then writes, and other handlers run between the two              *)

RaceBodies ==
    {[status |-> "Open"],
     [title |-> Title1Padded, status |-> "InProgress"],
     [priority |-> "Low"],
     [description |-> Padded(Description1), priority |-> "Critical"]}

RaceUpdateFind ==
    \E body \in RaceBodies : UpdateFind(Headers1, [id |-> <<"1">>], body)

NextRaceUpdate ==
    \/ RaceUpdateFind /\ UNCHANGED clientVars
    \/ \E r \in BagToSet(inflight) : UpdateWrite(r) /\ UNCHANGED clientVars

SpecRaceUpdate == InitUpdate /\ [][NextRaceUpdate]_vars

\* the value an update stores for a field its body holds
Written(f, body) == IF f \in {"title", "description"} THEN Trim(body[f]) ELSE body[f]

\* C23: every update by the owner of a stored issue, with a body that
\* breaks no rule, is answered 200 whatever other updates of the issue are
\* under way; its write stores the body's value in each field the body holds
\* and leaves every other field as the write before it left it, so that each
\* field ends with the value of the last write that supplied it.
C23_ConcurrentUpdatesLastWriteWins ==
    [][(/\ UpdateAnswered
        /\ Faulty(resp'.req.body) = {}
        /\ \E x \in issues :
            x.id = AddressedId(resp'.req).n /\ x.userId = Caller(resp'.req))
       => /\ resp'.status = 200
          /\ LET old == Addressed(resp'.req, issues)
                 new == Addressed(resp'.req, issues')
             IN  \A f \in EditableFields :
                    new[f] = IF f \in DOMAIN resp'.req.body
                             THEN Written(f, resp'.req.body)
                             ELSE old[f]
      ]_vars

\* an update that set the status to Open was answered 200 while another
\* update of the same issue, which read the issue earlier and will set the
\* status to InProgress, still waits for its write; a third had set the
\* priority before
C23_Witness ==
    /\ resp.op = "update"
    /\ resp.status = 200
    /\ resp.req.body = [status |-> "Open"]
    /\ \E r \in BagToSet(inflight) :
        /\ r.op = "update"
        /\ r.id = 1
        /\ "status" \in DOMAIN r.data
        /\ r.data.status = "InProgress"
    /\ \E x \in issues : x.id = 1 /\ x.status = "Open" /\ x.priority = "Low"

\* both updates are done: the status is that of the one written last, the
\* title that of the only one that supplied it
C23_WitnessDone ==
    /\ inflight = EmptyBag
    /\ resp.op = "update"
    /\ resp.status = 200
    /\ resp.req.body = [status |-> "Open"]
    /\ \E x \in issues : x.id = 1 /\ x.status = "Open" /\ x.title = Title1

----------------------------------------------------------------------------
(* Pages of the list: page and limit as clients send them, one request at *)
(* a time                                                                  *)

PageQueries ==
    {<<>>,
     [page |-> <<"x">>],
     [limit |-> <<>>],
     [page |-> <<" ">>, limit |-> <<"-">>],
     [status |-> "Closed", limit |-> <<"a", "1">>],
     [page |-> <<"1">>, limit |-> <<"1">>],
     [page |-> <<"2">>, limit |-> <<"1">>],
     [page |-> <<"3">>, limit |-> <<"1">>],
     [page |-> <<"x">>, limit |-> <<"1">>],
     [page |-> <<"2">>, limit |-> <<"y">>],
     [page |-> <<"2", "x">>, limit |-> <<"1">>]}

PagesCreate ==
    /\ inflight = EmptyBag
    /\ \E rq \in {<<Headers1, IssueBug>>, <<Headers1, IssueUI>>,
                  <<Headers2, IssueUI>>} : Create(rq[1], rq[2])

PagesList ==
    /\ inflight = EmptyBag
    /\ \E query \in PageQueries : ListFind(Headers1, query)

NextPages ==
    \/ PagesCreate /\ UNCHANGED clientVars
    \/ Millisecond /\ UNCHANGED clientVars
    \/ PagesList /\ UNCHANGED clientVars
    \/ \E r \in BagToSet(inflight) : ListCount(r) /\ UNCHANGED clientVars

SpecPages == InitList /\ [][NextPages]_vars

\* no integer begins at the front of s, after white space
NoIntegerIn(s) ==
    \A i \in 1..Len(s) :
        (\A j \in 1..(i - 1) : s[j] = " ") =>
            /\ s[i] \notin Digits
            /\ ~(s[i] \in {"+", "-"} /\ i < Len(s) /\ s[i + 1] \in Digits)

\* the parameter is absent or its value does not parse as an integer
Unparsed(query, k) == k \notin DOMAIN query \/ NoIntegerIn(query[k])

\* the parameter is a plain positive number
PlainPositive(query, k) ==
    /\ k \in DOMAIN query
    /\ query[k] /= <<>>
    /\ \A i \in DOMAIN query[k] : query[k][i] \in Digits
    /\ \E i \in DOMAIN query[k] : query[k][i] /= "0"

\* C24: in a list of an authenticated caller whose filters are valid, a
\* page that is absent or does not parse as an integer counts as 1 and a
\* limit that is absent or does not parse as an integer counts as 10, and
\* the request is answered 200 (the other of the two being absent,
\* unparsable or a plain positive number); with both defaults the page
\* holds all the issues asked for, up to ten.
C24_PageAndLimitDefaults ==
    LET q == resp.req.query IN
    (/\ resp.op = "list"
     /\ Genuine(resp.req.headers, resp.at)
     /\ \A f \in EnumFilters : SuppliedWord(q, f) => q[f] \in EnumOf(f)
     /\ Unparsed(q, "page") \/ Unparsed(q, "limit")
     /\ \A k \in {"page", "limit"} : Unparsed(q, k) \/ PlainPositive(q, k))
    => /\ resp.status = 200
       /\ Unparsed(q, "page") => resp.body.data.pagination.currentPage = 1
       /\ Unparsed(q, "limit") => resp.body.data.pagination.limit = 10
       /\ (Unparsed(q, "page") /\ Unparsed(q, "limit") /\ Cardinality(Wanted(q)) <= 10)
            => Range(Listed) = Wanted(q)

\* a list with a page of " " and a limit of "-" was answered 200 with
\* page 1 of ten, and shows the caller's two issues
C24_Witness ==
    /\ resp.op = "list"
    /\ resp.status = 200
    /\ resp.req.query = [page |-> <<" ">>, limit |-> <<"-">>]
    /\ resp.body.data.pagination.currentPage = 1
    /\ resp.body.data.pagination.limit = 10
    /\ Len(resp.body.data.issues) = 2

\* page "x" with limit 1 was answered 200 as page 1, while the caller has
\* more than one issue
C24_WitnessPage ==
    /\ resp.op = "list"
    /\ resp.status = 200
    /\ resp.req.query = [page |-> <<"x">>, limit |-> <<"1">>]
    /\ resp.body.data.pagination.currentPage = 1
    /\ resp.body.data.pagination.hasNextPage

\* page 2 with limit "y" was answered 200 with a limit of 10
C24_WitnessLimit ==
    /\ resp.op = "list"
    /\ resp.status = 200
    /\ resp.req.query = [page |-> <<"2">>, limit |-> <<"y">>]
    /\ resp.body.data.pagination.currentPage = 2
    /\ resp.body.data.pagination.limit = 10
    /\ Mine /= {}

----------------------------------------------------------------------------
(* Paging through the list: the requests for the pages are under way       *)
(* together and read the same store, which changes only when none is       *)

PagingQueries ==
    {[page |-> <<"1">>, limit |-> <<"1">>],
     [page |-> <<"2">>, limit |-> <<"1">>],
     [page |-> <<"3">>, limit |-> <<"1">>],
     [page |-> <<"1">>, limit |-> <<"2">>],
     [page |-> <<"2">>, limit |-> <<"2">>],
     [status |-> "Closed", page |-> <<"1">>, limit |-> <<"1">>],
     [status |-> "Closed", page |-> <<"2">>, limit |-> <<"1">>]}

PagingCreates == {<<Headers1, IssueBug>>, <<Headers1, IssueUI>>, <<Headers2, IssueUI>>}

PagingCreate ==
    /\ inflight = EmptyBag
    /\ \E rq \in PagingCreates : Create(rq[1], rq[2])

PagingList == \E query \in PagingQueries : ListFind(Headers1, query)

NextPaging ==
    \/ PagingCreate /\ UNCHANGED clientVars
    \/ Millisecond /\ UNCHANGED clientVars
    \/ PagingList /\ UNCHANGED clientVars
    \/ \E r \in BagToSet(inflight) : ListCount(r) /\ UNCHANGED clientVars

SpecPaging == InitList /\ [][NextPaging]_vars

\* the issues of the request's caller that satisfy its filters
Asked(req) ==
    {x \in issues :
        /\ x.userId = Caller(req)
        /\ \A f \in EnumFilters : SuppliedWord(req.query, f) => x[f] = req.query[f]
        /\ SuppliedChars(req.query, "search") =>
                \/ HoldsTerm(x.title, req.query.search)
                \/ HoldsTerm(x.description, req.query.search)}

\* the number of pages of `limit` rows that `total` rows fill
PagesFor(total, limit) ==
    CHOOSE n \in 0..total : n * limit >= total /\ (n = 0 \/ (n - 1) * limit < total)

\* the list requests that have read their page
PageReads == {r \in BagToSet(inflight) : r.op = "list" /\ r.limit >= 1 /\ r.page >= 1}

RowsOf(r) == {Stored(r.issues[i]) : i \in DOMAIN r.issues}

\* the same caller, filters and limit
SameList(r1, r2) ==
    /\ r1.req.headers = r2.req.headers
    /\ r1.limit = r2.limit
    /\ \A f \in EnumFilters \cup {"search"} :
        /\ (f \in DOMAIN r1.req.query) = (f \in DOMAIN r2.req.query)
        /\ f \in DOMAIN r1.req.query => r1.req.query[f] = r2.req.query[f]

\* C25: list requests that read the same store with the same caller,
\* filters and limit >= 1: the pages are pairwise disjoint and an earlier
\* page holds nothing older than a later page; each page holds the caller's
\* matching issues only, newest first; a page before the last holds limit
\* issues, the last the rest, a page after the last none; and the response
\* has totalCount matching issues, totalPages = ceil(totalCount / limit) and
\* hasPreviousPage = (page > 1).
C25_PagesPartitionTheList ==
    /\ \A r \in PageReads :
        LET total == Cardinality(Asked(r.req))
            pages == PagesFor(total, r.limit)
        IN  /\ RowsOf(r) \subseteq Asked(r.req)
            /\ Cardinality(RowsOf(r)) = Len(r.issues)
            /\ \A i \in 1..(Len(r.issues) - 1) :
                    r.issues[i].createdAt >= r.issues[i + 1].createdAt
            /\ r.page < pages => Len(r.issues) = r.limit
            /\ r.page = pages => Len(r.issues) = total - (pages - 1) * r.limit
            /\ r.page > pages => Len(r.issues) = 0
    /\ \A r1, r2 \in PageReads :
        (SameList(r1, r2) /\ r1.page < r2.page) =>
            /\ RowsOf(r1) \cap RowsOf(r2) = {}
            /\ \A x \in RowsOf(r1), y \in RowsOf(r2) : x.createdAt >= y.createdAt
    /\ (/\ ListAnswered
        /\ resp.body.data.pagination.limit >= 1
        /\ resp.body.data.pagination.currentPage >= 1)
       => LET p == resp.body.data.pagination IN
          /\ p.totalCount = Cardinality(Asked(resp.req))
          /\ p.totalPages = PagesFor(p.totalCount, p.limit)
          /\ p.hasPreviousPage = (p.currentPage > 1)

\* the same, for stores in which no two issues were created in the same
\* millisecond
C25_HoldsWithoutTies ==
    (\A x, y \in issues : x.createdAt = y.createdAt => x = y)
        => C25_PagesPartitionTheList

\* pages 1 and 2 of one issue each were read from a store with two issues
\* of the caller that were created one after the other
C25_WitnessWithoutTies ==
    /\ \A x, y \in issues : x.createdAt = y.createdAt => x = y
    /\ \E r1, r2 \in PageReads :
        /\ SameList(r1, r2)
        /\ r1.page = 1
        /\ r2.page = 2
        /\ Len(r1.issues) = 1
        /\ Len(r2.issues) = 1

----------------------------------------------------------------------------
(* A delete by the owner that overlaps another delete or an update of the  *)
(* same issue: each handler reads the issue, then writes                   *)

RaceDeleteBodies ==
    {[status |-> "Open"],
     [title |-> Title1, priority |-> "Low"],
     [title |-> TitleShort]}

RaceDeleteFind == \E u \in users : DeleteFind(TokenHeaders(u), [id |-> <<"1">>])

RaceDeleteUpdateFind ==
    \E body \in RaceDeleteBodies : UpdateFind(Headers1, [id |-> <<"1">>], body)

NextRaceDelete ==
    \/ RaceDeleteFind /\ UNCHANGED clientVars
    \/ RaceDeleteUpdateFind /\ UNCHANGED clientVars
    \/ \E r \in BagToSet(inflight) : DeleteWrite(r) /\ UNCHANGED clientVars
    \/ \E r \in BagToSet(inflight) : UpdateWrite(r) /\ UNCHANGED clientVars

SpecRaceDelete == InitUpdate /\ [][NextRaceDelete]_vars

\* C26: every answer to a delete or an update of an authenticated caller
\* has one of the statuses 200, 400, 403, 404, whatever other delete or
\* update of the issue is under way; a request that finds the issue gone,
\* at its read or at its write, is answered 404; and after a delete
\* answered 200 the issue is not in the store.
C26_DeleteRaceStatuses ==
    [][(/\ resp'.op \in {"delete", "update"}
        /\ Genuine(resp'.req.headers, resp'.at))
       => /\ resp'.status \in {200, 400, 403, 404}
          /\ (/\ ~AddressedId(resp'.req).nan
              /\ ~HasId(issues, AddressedId(resp'.req).n)
              /\ resp'.status /= 400)
             => resp'.status = 404
          /\ (resp'.op = "delete" /\ resp'.status = 200)
             => ~HasId(issues', AddressedId(resp'.req).n)
      ]_vars

\* the part of it that does not speak of the status: a write that finds the
\* issue gone leaves it gone, and a delete answered 200 leaves the issue out
\* of the store
C26_IssueAbsentAfterDelete ==
    [][/\ ~HasId(issues, 1) => ~HasId(issues', 1)
       /\ (resp'.op = "delete" /\ resp'.status = 200) => ~HasId(issues', 1)
      ]_vars

\* a delete or an update was answered 500 at its write because an
\* overlapping delete had removed the issue
C26_WitnessLateWrite ==
    /\ resp.op \in {"delete", "update"}
    /\ resp.status = 500
    /\ Genuine(resp.req.headers, resp.at)
    /\ ~HasId(issues, 1)

----------------------------------------------------------------------------
(* The client's thunks: what each sends, what the server answers and what  *)
(* the slice makes of the answer. The client is signed in as the first     *)
(* user; the server handles a request in one step when the answer is due.  *)

DigitChar(d) ==
    CASE d = 0 -> "0" [] d = 1 -> "1" [] d = 2 -> "2" [] d = 3 -> "3"
      [] d = 4 -> "4" [] d = 5 -> "5" [] d = 6 -> "6" [] d = 7 -> "7"
      [] d = 8 -> "8" [] d = 9 -> "9"

\* n.toString()
RECURSIVE NumberToString(_)
NumberToString(n) ==
    IF n < 0 THEN <<"-">> \o NumberToString(0 - n)
    ELSE IF n < 10 THEN <<DigitChar(n)>>
    ELSE NumberToString(n \div 10) \o <<DigitChar(n % 10)>>

\* the query string of fetchIssues: page and limit, and the filters that
\* are not empty
FetchQuery(arg) ==
    [k \in {"page", "limit"}
            \cup {f \in {"status", "priority", "severity"} : arg[f] /= ""}
            \cup (IF arg.search /= <<>> THEN {"search"} ELSE {}) |->
        IF k = "page" THEN NumberToString(arg.page)
        ELSE IF k = "limit" THEN NumberToString(arg.limit)
        ELSE arg[k]]

\* what the guard makes of the client's token
Session == authenticateToken(Headers1, now)

\* response.data.data of GET /api/issues for the query
ListAnswers(arg) ==
    LET query == FetchQuery(arg)
        page == OrDefault(ParseInt(query, "page"), DefaultPage)
        limit == OrDefault(ParseInt(query, "limit"), DefaultLimit)
        where == ListWhere(query, Session.user)
        rows == {x \in issues : Matches(x, where)}
    IN  {[issues |-> [i \in DOMAIN SkipTake(s, (page - 1) * limit, limit) |->
                        IncludeUser(SkipTake(s, (page - 1) * limit, limit)[i])],
          pagination |-> Pagination(page, limit, Cardinality(rows))] :
            s \in OrderedByCreatedAtDesc(rows)}

\* the caller's issue that /api/issues/${id} addresses, if there is one
ServerFinds(id) ==
    {x \in IssueFindUnique(ParseIntStr(id.value).n) : ~NotOwner(x, Session.user)}

Thunk(type, arg) == [type |-> type, arg |-> arg]

Room == BagCardinality(pending) < MaxInflight

Start(t) == pending' = pending (+) SetToBag({t})

Finish(t) == pending' = pending (-) SetToBag({t})

\* what the Dashboard passes to fetchIssues
FetchArg(s) ==
    [page |-> s.pagination.currentPage, limit |-> s.pagination.limit,
     search |-> s.filters.search, status |-> s.filters.status,
     priority |-> s.filters.priority, severity |-> s.filters.severity]

FetchIssuesStart ==
    /\ Room
    /\ state' = fetchIssuesPending(state)
    /\ Start(Thunk("fetchIssues", FetchArg(state)))
    /\ UNCHANGED serverVars

FetchIssuesDone(t) ==
    /\ t.type = "fetchIssues"
    /\ \E payload \in ListAnswers(t.arg) : state' = fetchIssuesFulfilled(state, payload)
    /\ Finish(t)
    /\ UNCHANGED serverVars

\* no response reached the client
FetchIssuesFailed(t) ==
    /\ t.type = "fetchIssues"
    /\ state' = fetchIssuesRejected(state, "Failed to fetch issues")
    /\ Finish(t)
    /\ UNCHANGED serverVars

\* the id of the route /issues/:id, a string
RouteIds == {JsString(<<"1">>), JsString(<<"2">>)}

FetchIssueByIdStart ==
    /\ Room
    /\ state' = fetchIssueByIdPending(state)
    /\ \E id \in RouteIds : Start(Thunk("fetchIssueById", id))
    /\ UNCHANGED serverVars

FetchIssueByIdDone(t) ==
    /\ t.type = "fetchIssueById"
    /\ \E x \in ServerFinds(t.arg) : state' = fetchIssueByIdFulfilled(state, IncludeUser(x))
    /\ Finish(t)
    /\ UNCHANGED serverVars

FetchIssueByIdFailed(t) ==
    /\ t.type = "fetchIssueById"
    /\ ServerFinds(t.arg) = {}
    /\ state' = fetchIssueByIdRejected(state, "Issue not found")
    /\ Finish(t)
    /\ UNCHANGED serverVars

\* the form of the create page, filled in
FormData ==
    [title |-> Title1, description |-> Description1, status |-> "Open",
     priority |-> "Medium", severity |-> "Medium"]

CreateIssueStart ==
    /\ Room
    /\ state' = createIssuePending(state)
    /\ Start(Thunk("createIssue", FormData))
    /\ UNCHANGED serverVars

CreateIssueDone(t) ==
    /\ t.type = "createIssue"
    /\ RoomForIssue
    /\ CreateInvalid(t.arg) = ""
    /\ LET row == NewIssueRow(CreateData(t.arg, Session.user)) IN
        /\ issues' = issues \cup {row}
        /\ nextIssueId' = nextIssueId + 1
        /\ state' = createIssueFulfilled(state, IncludeUser(row))
    /\ Finish(t)
    /\ UNCHANGED <<users, nextUserId, now, inflight, resp>>

\* no response reached the client
CreateIssueFailed(t) ==
    /\ t.type = "createIssue"
    /\ state' = createIssueRejected(state, "Failed to create issue")
    /\ Finish(t)
    /\ UNCHANGED serverVars

\* the button of the detail page that marks the issue resolved
UpdateIssueStart ==
    /\ Room
    /\ state' = updateIssuePending(state)
    /\ \E id \in RouteIds :
            Start(Thunk("updateIssue", [id |-> id, data |-> [status |-> "Resolved"]]))
    /\ UNCHANGED serverVars

UpdateIssueDone(t) ==
    /\ t.type = "updateIssue"
    /\ UpdateInvalid(t.arg.data) = ""
    /\ \E x \in ServerFinds(t.arg.id) :
        LET updatedIssue == UpdatedRow(x, UpdateData(t.arg.data)) IN
        /\ issues' = (issues \ {x}) \cup {updatedIssue}
        /\ state' = updateIssueFulfilled(state, IncludeUser(updatedIssue))
    /\ Finish(t)
    /\ UNCHANGED <<users, nextUserId, nextIssueId, now, inflight, resp>>

UpdateIssueFailed(t) ==
    /\ t.type = "updateIssue"
    /\ ServerFinds(t.arg.id) = {}
    /\ state' = updateIssueRejected(state, "Issue not found")
    /\ Finish(t)
    /\ UNCHANGED serverVars

DeleteIssueStart ==
    /\ Room
    /\ state' = deleteIssuePending(state)
    /\ \E id \in RouteIds : Start(Thunk("deleteIssue", id))
    /\ UNCHANGED serverVars

DeleteIssueDone(t) ==
    /\ t.type = "deleteIssue"
    /\ ServerFinds(t.arg) /= {}
    /\ issues' = DeleteKeeps(issues, ServerFinds(t.arg))
    /\ state' = deleteIssueFulfilled(state, t.arg)
    /\ Finish(t)
    /\ UNCHANGED <<users, nextUserId, nextIssueId, now, inflight, resp>>

DeleteIssueFailed(t) ==
    /\ t.type = "deleteIssue"
    /\ ServerFinds(t.arg) = {}
    /\ state' = deleteIssueRejected(state, "Issue not found")
    /\ Finish(t)
    /\ UNCHANGED serverVars

\* what the filter controls and the search box dispatch
FilterPayloads == {[status |-> "Resolved"], [search |-> <<"b", "u", "g">>]}

SetFilters ==
    /\ \E payload \in FilterPayloads : state' = setFilters(state, payload)
    /\ UNCHANGED <<pending, serverVars>>

ClearFilters ==
    /\ state' = clearFilters(state)
    /\ UNCHANGED <<pending, serverVars>>

\* the buttons for the next and the previous page
SetPage ==
    /\ \E page \in {state.pagination.currentPage - 1, state.pagination.currentPage + 1} :
        /\ page \in 1..2
        /\ state' = setPage(state, page)
    /\ UNCHANGED <<pending, serverVars>>

\* the detail page is left
ClearCurrentIssue ==
    /\ state.currentIssue /= <<>>
    /\ state' = clearCurrentIssue(state)
    /\ UNCHANGED <<pending, serverVars>>

----------------------------------------------------------------------------
(* The slice under the pages of the client, one issue in the store at the *)
(* start, one thunk at a time                                              *)

NextSlice ==
    \/ SetFilters
    \/ ClearFilters
    \/ SetPage
    \/ ClearCurrentIssue
    \/ pending = EmptyBag /\ FetchIssuesStart
    \/ \E t \in BagToSet(pending) : FetchIssuesDone(t)
    \/ \E t \in BagToSet(pending) : FetchIssuesFailed(t)
    \/ pending = EmptyBag /\ FetchIssueByIdStart
    \/ \E t \in BagToSet(pending) : FetchIssueByIdDone(t)
    \/ \E t \in BagToSet(pending) : FetchIssueByIdFailed(t)
    \/ pending = EmptyBag /\ CreateIssueStart
    \/ \E t \in BagToSet(pending) : CreateIssueDone(t)
    \/ \E t \in BagToSet(pending) : CreateIssueFailed(t)
    \/ pending = EmptyBag /\ UpdateIssueStart
    \/ \E t \in BagToSet(pending) : UpdateIssueDone(t)
    \/ \E t \in BagToSet(pending) : UpdateIssueFailed(t)
    \/ pending = EmptyBag /\ DeleteIssueStart
    \/ \E t \in BagToSet(pending) : DeleteIssueDone(t)
    \/ \E t \in BagToSet(pending) : DeleteIssueFailed(t)

SpecSlice == InitUpdate /\ [][NextSlice]_vars

----------------------------------------------------------------------------
(* The Dashboard, mounted: its effect fetches the list again whenever      *)
(* currentPage, limit or the filters object changed; two issues of the     *)
(* client's user are in the store                                          *)

ExportLimit == 10000

Issue2 ==
    [id |-> 2, title |-> Title1, description |-> Description1, status |-> "Open",
     priority |-> "Medium", severity |-> "Medium", userId |-> 1, createdAt |-> 1,
     updatedAt |-> 1]

FetchStatsThunk == Thunk("fetchIssueStats", <<>>)

\* the page has mounted: both effects have dispatched their thunk
InitDashboard ==
    /\ users = {User1, User2}
    /\ issues = {Issue1, Issue2}
    /\ nextUserId = 3
    /\ nextIssueId = 3
    /\ now = 2
    /\ inflight = EmptyBag
    /\ resp = NoResponse
    /\ state = fetchIssueStatsPending(fetchIssuesPending(initialState))
    /\ pending = SetToBag({Thunk("fetchIssues", FetchArg(initialState)), FetchStatsThunk})

\* the effect `dispatch(fetchIssues({page, limit, ...filters}))` after a
\* reducer made s of the state; renewed tells that the filters object is a
\* new one. done is the thunk that settled in this step, if one did.
DashboardEffect(s, renewed, done) ==
    IF \/ renewed
       \/ s.pagination.currentPage /= state.pagination.currentPage
       \/ s.pagination.limit /= state.pagination.limit
    THEN /\ state' = fetchIssuesPending(s)
         /\ pending' = (pending (-) done) (+) SetToBag({Thunk("fetchIssues", FetchArg(s))})
    ELSE /\ state' = s
         /\ pending' = pending (-) done

\* the selects and the search box, which dispatch when their value changes
DashboardPayloads ==
    {[status |-> "Closed"], [status |-> ""], [search |-> <<"b", "u", "g">>],
     [search |-> <<>>]}

DashboardSetFilters ==
    /\ Room
    /\ \E payload \in DashboardPayloads :
        /\ \E k \in DOMAIN payload : payload[k] /= state.filters[k]
        /\ DashboardEffect(setFilters(state, payload), TRUE, EmptyBag)
    /\ UNCHANGED serverVars

DashboardClearFilters ==
    /\ Room
    /\ DashboardEffect(clearFilters(state), TRUE, EmptyBag)
    /\ UNCHANGED serverVars

\* handleExportCSV, handleExportJSON up to the await
Export ==
    /\ Room
    /\ state' = fetchIssuesPending(state)
    /\ Start(Thunk("fetchIssues",
                   [FetchArg(state) EXCEPT !.page = 1, !.limit = ExportLimit]))
    /\ UNCHANGED serverVars

DashboardFetchDone(t) ==
    /\ t.type = "fetchIssues"
    /\ \E payload \in ListAnswers(t.arg) :
            DashboardEffect(fetchIssuesFulfilled(state, payload), FALSE, SetToBag({t}))
    /\ UNCHANGED serverVars

StatsDone(t) ==
    /\ t.type = "fetchIssueStats"
    /\ LET counts == StatsCounts(StatsGroupBy(Session.user.userId)) IN
        state' = fetchIssueStatsFulfilled(state,
                    [counts |-> counts, total |-> StatsTotal(counts)])
    /\ Finish(t)
    /\ UNCHANGED serverVars

\* no response reached the client
StatsFailed(t) ==
    /\ t.type = "fetchIssueStats"
    /\ state' = fetchIssueStatsRejected(state, "Failed to fetch stats")
    /\ Finish(t)
    /\ UNCHANGED serverVars

NextDashboard ==
    \/ DashboardSetFilters
    \/ DashboardClearFilters
    \/ Export
    \/ \E t \in BagToSet(pending) : DashboardFetchDone(t)
    \/ \E t \in BagToSet(pending) : FetchIssuesFailed(t)
    \/ \E t \in BagToSet(pending) : StatsDone(t)
    \/ \E t \in BagToSet(pending) : StatsFailed(t)

SpecDashboard == InitDashboard /\ [][NextDashboard]_vars

----------------------------------------------------------------------------
(* Properties of the slice *)

\* the step leaves issues, currentIssue, stats and the pagination fields
\* other than currentPage as they are
FiltersFrame ==
    /\ state'.issues = state.issues
    /\ state'.currentIssue = state.currentIssue
    /\ state'.stats = state.stats
    /\ \A k \in DOMAIN state.pagination \ {"currentPage"} :
            state'.pagination[k] = state.pagination[k]
    /\ DOMAIN state'.pagination = DOMAIN state.pagination

\* C27: setFilters puts the values of its payload into the filters the
\* payload names, leaves the other filters as they are and sets currentPage
\* to 1; clearFilters empties search, status, priority and severity and
\* sets currentPage to 1; both leave issues, currentIssue, stats and the
\* rest of pagination unchanged.
C27_FilterReducersFrame ==
    [][/\ SetFilters =>
            /\ \E payload \in FilterPayloads :
                /\ \A k \in DOMAIN payload : state'.filters[k] = payload[k]
                /\ \A k \in DOMAIN state.filters \ DOMAIN payload :
                        state'.filters[k] = state.filters[k]
                /\ DOMAIN state'.filters = DOMAIN state.filters \cup DOMAIN payload
            /\ state'.pagination.currentPage = 1
            /\ FiltersFrame
       /\ ClearFilters =>
            /\ state'.filters.search = <<>>
            /\ state'.filters.status = ""
            /\ state'.filters.priority = ""
            /\ state'.filters.severity = ""
            /\ DOMAIN state'.filters = {"search", "status", "priority", "severity"}
            /\ state'.pagination.currentPage = 1
            /\ FiltersFrame
      ]_vars

\* both payloads were merged, one after the other, into the filters of a
\* slice that holds a list, a current issue and a count
C27_Witness ==
    /\ state.filters = [search |-> <<"b", "u", "g">>, status |-> "Resolved",
                        priority |-> "", severity |-> ""]
    /\ state.pagination.currentPage = 1
    /\ state.issues /= <<>>
    /\ state.currentIssue /= <<>>
    /\ state.pagination.totalCount > 0

\* C29: pagination.totalCount is never negative and never less than the
\* number of issues in state.issues.
C29_TotalCountCoversList ==
    /\ state.pagination.totalCount >= 0
    /\ state.pagination.totalCount >= Len(state.issues)

\* the count is below zero: an issue was deleted from the detail page
\* before any list was fetched
C29_WitnessNegative ==
    /\ state.pagination.totalCount < 0
    /\ pending = EmptyBag

\* the deleted issue is still in the list, with a count of zero
C29_WitnessStillListed ==
    /\ pending = EmptyBag
    /\ state.pagination.totalCount = 0
    /\ Len(state.issues) = 1
    /\ state.issues[1].id = 1
    /\ ~HasId(issues, 1)

----------------------------------------------------------------------------
(* Properties of the Dashboard *)

FetchesPending == {t \in BagToSet(pending) : t.type = "fetchIssues"}

\* C28: once no fetchIssues is in flight (and none has failed since the
\* last one was dispatched), state.issues and state.pagination are the
\* server's answer to the request dispatched last, which is the list for
\* the current filters, page and limit.
C28_ListMatchesLatestRequest ==
    (FetchesPending = {} /\ state.error = Null)
        => [issues |-> state.issues, pagination |-> state.pagination]
                \in ListAnswers(FetchArg(state))

\* no fetch is in flight and none failed, the status filter is Closed, and
\* the list shows an issue that is Open: the answer for the filters before
\* arrived last
C28_WitnessStale ==
    /\ FetchesPending = {}
    /\ state.error = Null
    /\ state.filters.status = "Closed"
    /\ \E i \in DOMAIN state.issues : state.issues[i].status = "Open"

\* the number of thunks of pending' that the step added as t
Added(t) == CopiesIn(t, pending') - CopiesIn(t, pending)

\* C30: the step in which the export's fetch (limit 10000) settles leaves
\* state.issues, pagination.currentPage and pagination.limit as they were
\* and dispatches no list fetch with a limit other than the one shown.
C30_ExportLeavesListAlone ==
    [][\A t \in FetchesPending :
        (t.arg.limit = ExportLimit /\ DashboardFetchDone(t))
        => /\ state'.issues = state.issues
           /\ state'.pagination.currentPage = state.pagination.currentPage
           /\ state'.pagination.limit = state.pagination.limit
           /\ \A u \in BagToSet(pending') :
                (u.type = "fetchIssues" /\ Added(u) > 0)
                    => u.arg.limit = state.pagination.limit
      ]_vars

\* the export's answer has been taken into the slice: the limit is 10000
\* and a list fetch with that limit is under way or done
C30_WitnessLimit ==
    /\ state.pagination.limit = ExportLimit
    /\ Len(state.issues) = 2

====
